---- MODULE Spec2Model ----
(***************************************************************************)
(* Model of the recommendation pipeline of the Satisfy backend             *)
(* (src/app.py, ai_recommend): catalog fetch, the four exclusion filters,  *)
(* the short circuit on an empty candidate list, the single call to the    *)
(* text-generation service and the parsing / validation / join of its      *)
(* reply.                                                                  *)
(* Beside it, the vendor lifecycle handlers of the administration          *)
(* (SpecVendor) and the product handlers that change the catalog while     *)
(* recommendation requests run (SpecConcurrent); every endpoint of         *)
(* /api/admin with admin login and logout (SpecAdmin); the vendor's        *)
(* session and endpoints beside the admin handlers acting on its account   *)
(* (SpecAccounts); the product interactions (SpecInteractions).            *)
(*                                                                         *)
(* Text is modelled as a sequence of one-character strings so that         *)
(* str.lower() and the substring test `a in b` are computed, not assumed.  *)
(* JSON values of the reply are tagged records [t |-> tag, v |-> value].   *)
(***************************************************************************)
EXTENDS Integers, Sequences, FiniteSets, TLC

VARIABLES
    catalog,            \* rows of the products table, in the order query(Product).all() returns them
    req,                \* the JSON body of the POST /api/ai-recommend request
    pc,                 \* position of the handler: "start", "waiting" (blocked in requests.post), "done"
    all_products,       \* the local all_products: the rows the handler read at its start
    filtered_products,  \* the local filtered_products after the four filters
    calls,              \* number of requests.post calls issued to the generation service
    prompt,             \* the prompt of the call in flight (None before the call)
    outcome,            \* what the generation call produced (None until it returns)
    response,           \* the HTTP response of the handler (None until it returns)
    vendors,            \* rows of the vendor_accounts table, by id
    emails,             \* the send_email calls made so far, oldest first
    admin_pc,           \* position of the admin handler: "idle", "committed" (about to call send_email)
    admin_req,          \* the admin request being handled, or the last one handled
    admin_response,     \* the HTTP response of the admin handler (None until it returns)
    admin_calls,        \* number of admin requests received
    sessions,           \* the Flask session of each browser
    customers,          \* the customer_accounts table: id -> row
    admins,             \* the admin_accounts table: username -> password
    interactions,       \* the product_interactions table, in insertion order
    store_req,          \* the last request to a vendor or interaction endpoint
    sequences,          \* the last value of the id sequence of each account table
    peer,               \* a second ai_recommend request, running beside the first
    product_seq,        \* last value of the products id sequence
    store_response,     \* the HTTP response of the last product handler (None before)
    mutations           \* number of vendor and interaction requests received

\* the variables of the recommendation request
pipeline_vars ==
    <<catalog, req, pc, all_products, filtered_products, calls, prompt, outcome, response>>

\* the variables of the vendor administration
vendor_vars == <<vendors, emails, admin_pc, admin_req, admin_response, admin_calls, sessions, customers, admins, sequences>>

\* the variables of the second request and of the product handlers
store_vars == <<peer, product_seq, store_response, mutations, interactions, store_req>>

vars == <<pipeline_vars, vendor_vars, store_vars>>

-----------------------------------------------------------------------------
(* Bounds of the model *)

\* longest catalog explored
MaxCatalog == 4

\* most admin requests explored in one behaviour
MaxAdminCalls == 2

\* most product create/update/delete requests explored in one behaviour
MaxMutations == 2
\* longest candidate list in a reply of the generation service
MaxRecs == 2

-----------------------------------------------------------------------------
(* Text *)

None == [t |-> "none"]

UpperChars == <<"A","B","C","D","E","F","G","H","I","J","K","L","M",
                "N","O","P","Q","R","S","T","U","V","W","X","Y","Z">>
LowerChars == <<"a","b","c","d","e","f","g","h","i","j","k","l","m",
                "n","o","p","q","r","s","t","u","v","w","x","y","z">>

\* the lowercase letter of each uppercase letter
LowerMap ==
    [c \in {UpperChars[i] : i \in 1..Len(UpperChars)} |->
        LowerChars[CHOOSE i \in 1..Len(UpperChars) : UpperChars[i] = c]]

\* str.lower() on one character
LowerChar(c) == IF c \in DOMAIN LowerMap THEN LowerMap[c] ELSE c

\* str.lower()
Lower(s) == [i \in 1..Len(s) |-> LowerChar(s[i])]

\* Python's `a in b` on two strings
Contains(b, a) ==
    \E k \in 0..(Len(b) - Len(a)) : \A i \in 1..Len(a) : b[k + i] = a[i]

\* a nullable text column holds None or Text(s)
Text(s) == [t |-> "str", v |-> s]

\* what an f-string renders for a nullable text column: the text, or "None" for NULL
Fmt(x) == IF x.t = "none" THEN <<"N","o","n","e">> ELSE x.v

Space == <<" ">>

-----------------------------------------------------------------------------
(* Catalog: rows of the products table (models.Product) *)

\* The rows the explored catalogs are drawn from, in storage order (which is
\* not the order of the identifiers).  price, roast, caffeine_mg and the
\* timestamps are carried through the pipeline untouched and are left out.
Pool == <<
    [id |-> 2, name |-> <<"L","a","t","t","e">>, category |-> <<"H","o","t">>,
     notes |-> Text(<<"F","o","a","m">>), allergens |-> {<<"m","i","l","k">>}, vendor |-> "Starbucks"],
    [id |-> 1, name |-> <<"S","h","o","t">>, category |-> <<"E","s","p">>,
     notes |-> Text(<<"B","o","l","d">>), allergens |-> {}, vendor |-> "Starbucks"],
    [id |-> 4, name |-> <<"M","o","c","h","a">>, category |-> <<"H","o","t">>,
     notes |-> None, allergens |-> {}, vendor |-> "Blue Bottle Coffee"],
    [id |-> 3, name |-> <<"C","h","a","i">>, category |-> <<"T","e","a">>,
     notes |-> Text(<<"M","i","l","k">>), allergens |-> {<<"m","i","l","k">>}, vendor |-> "Starbucks"],
    [id |-> 5, name |-> <<"C","o","l","a">>, category |-> <<"I","c","e">>,
     notes |-> Text(<<"m","i","n","t">>), allergens |-> {}, vendor |-> "Blue Bottle Coffee"] >>

\* every catalog explored: the first n rows of Pool, for n up to MaxCatalog
Catalogs == { SubSeq(Pool, 1, n) : n \in 0..MaxCatalog }

-----------------------------------------------------------------------------
(* Requests: the fields ai_recommend reads from the JSON body *)

DislikedChoices == { {}, {3}, {1, 2} }
AllergyChoices  == { <<>>, << <<"m","i","l","k">> >>,
                     << <<"M","I","L","K">>, <<"N","o","n","e">> >> }
AvoidChoices    == { <<>>, << <<"t","e","a">> >> }
CategoryChoices == { None, Text(<<"H","o","t">>), Text(<<"h","o","t">>) }

Requests ==
    [ query : {"something strong"}, user_id : {"guest"},
      disliked_ids : DislikedChoices, allergies : AllergyChoices,
      avoid_list : AvoidChoices, preferred_vendors : {<<>>},
      category : CategoryChoices ]

\* Python truthiness of the category field: None and "" are falsy
Truthy(x) == x.t # "none" /\ x.v # <<>>

-----------------------------------------------------------------------------
(* The four exclusion filters *)

\* A list comprehension [p for p in ps if keep(p)] is SelectSeq(ps, keep).

\* mutant: only the first product of the category is kept
CategoryFilterKeepsFirst(ps, category_filter) ==
    IF Truthy(category_filter)
    THEN LET keep(p) == p.category = category_filter.v
             kept == SelectSeq(ps, keep)
         IN  IF kept = <<>> THEN <<>> ELSE <<kept[1]>>
    ELSE ps

CategoryFilter(ps, category_filter) ==
    IF Truthy(category_filter)
    THEN LET keep(p) == p.category = category_filter.v IN SelectSeq(ps, keep)
    ELSE ps

\* mutant: the membership test inverted (`in` for `not in`)
DislikeFilterInverted(ps, disliked_ids) ==
    LET keep(p) == p.id \in disliked_ids IN SelectSeq(ps, keep)

DislikeFilter(ps, disliked_ids) ==
    LET keep(p) == p.id \notin disliked_ids IN SelectSeq(ps, keep)

\* f"{p['name']} {p.get('notes', '')}".lower()
AllergenText(p) == Lower(p.name \o Space \o Fmt(p.notes))

\* mutant: the product text is not lowercased before the substring test
AllergenFilterCaseSensitive(ps, allergies) ==
    IF allergies # <<>>
    THEN LET has_allergen(p) ==
                 \E i \in 1..Len(allergies) :
                     Contains(p.name \o Space \o Fmt(p.notes), Lower(allergies[i]))
             keep(p) == ~has_allergen(p)
         IN  SelectSeq(ps, keep)
    ELSE ps

AllergenFilter(ps, allergies) ==
    IF allergies # <<>>
    THEN LET has_allergen(p) ==
                 \E i \in 1..Len(allergies) :
                     Contains(AllergenText(p), Lower(allergies[i]))
             keep(p) == ~has_allergen(p)
         IN  SelectSeq(ps, keep)
    ELSE ps

\* f"{p['name']} {p.get('notes', '')} {p['category']}".lower()
AvoidText(p) == Lower(p.name \o Space \o Fmt(p.notes) \o Space \o p.category)

AvoidFilter(ps, avoid_list) ==
    IF avoid_list # <<>>
    THEN LET should_avoid(p) ==
                 \E i \in 1..Len(avoid_list) :
                     Contains(AvoidText(p), Lower(avoid_list[i]))
             keep(p) == ~should_avoid(p)
         IN  SelectSeq(ps, keep)
    ELSE ps

\* the value of filtered_products when the handler reaches `if not filtered_products`
FilterProducts(ps, r) ==
    AvoidFilter(
        AllergenFilter(
            DislikeFilter(
                CategoryFilter(ps, r.category),
                r.disliked_ids),
            r.allergies),
        r.avoid_list)
-----------------------------------------------------------------------------
(* The prompt sent to the text-generation service *)

Digits == <<"0","1","2","3","4","5","6","7","8","9">>

\* str(n) for a natural number n, as an f-string renders {p['id']}
RECURSIVE Str(_)
Str(n) == IF n < 10 THEN <<Digits[n + 1]>> ELSE Str(n \div 10) \o <<Digits[(n % 10) + 1]>>

NewLine == <<"\n">>

\* f"{p['id']}. {p['name']} ({p['category']}) - {p.get('notes', '')}"
MenuLine(p) ==
    Str(p.id) \o <<".", " ">> \o p.name \o <<" ", "(">> \o p.category
        \o <<")", " ", "-", " ">> \o Fmt(p.notes)

\* sep.join(xs)
RECURSIVE Join(_, _)
Join(xs, sep) ==
    IF xs = <<>> THEN <<>>
    ELSE IF Len(xs) = 1 THEN xs[1]
    ELSE xs[1] \o sep \o Join(Tail(xs), sep)

\* mutant: the menu lists the products last first
ProductsTextReversed(ps) ==
    Join([i \in 1..Len(ps) |-> MenuLine(ps[Len(ps) + 1 - i])], NewLine)

\* products_text: "\n".join of one line per product of ps
ProductsText(ps) ==
    Join([i \in 1..Len(ps) |-> MenuLine(ps[i])], NewLine)

\* the parts of the prompt that vary with the request: the query, the values
\* put into the vendor, category and allergy notes (empty when the note is
\* left out), and the menu
Prompt(fp, r) ==
    [user_query |-> r.query,
     vendor_note |-> r.preferred_vendors,
     category_note |-> IF Truthy(r.category) THEN r.category.v ELSE <<>>,
     allergen_note |-> r.allergies,
     products_text |-> ProductsText(fp)]

-----------------------------------------------------------------------------
(* Replies of the text-generation service *)

JInt(n)   == [t |-> "int", v |-> n]
JStr(x)   == [t |-> "str", v |-> x]
JList(xs) == [t |-> "list", v |-> xs]
JAbsent   == [t |-> "absent"]
JNull     == [t |-> "null"]
\* a JSON object given by its keys, as a Python dict iterates it
JDict(ks) == [t |-> "dict", v |-> ks]

ReplyIds == {1, 3}
ReplyConfidences == {JInt(4), JInt(5), JInt(7), JInt(8), JAbsent}

\* the entries a reply may list: {"id": i, "confidence": c} or {"id": i}
ReplyEntries ==
    { [t |-> "object", id |-> JInt(i), confidence |-> c] :
        i \in ReplyIds, c \in ReplyConfidences }

\* entries of other shapes: a text or null confidence, an entry that is no
\* object, an identifier given as text (a number, or not a number)
OddEntries ==
    { [t |-> "object", id |-> JInt(1), confidence |-> JStr(<<"7">>)],
      [t |-> "object", id |-> JInt(1), confidence |-> JNull],
      JInt(7),
      [t |-> "object", id |-> JStr(<<"1">>), confidence |-> JInt(7)],
      [t |-> "object", id |-> JStr(<<"x">>), confidence |-> JInt(7)] }

\* the entries listed next to the odd ones
MixedEntries ==
    OddEntries \cup
    { [t |-> "object", id |-> JInt(1), confidence |-> JInt(7)],
      [t |-> "object", id |-> JInt(3), confidence |-> JInt(5)] }

ReplyLists ==
    UNION { [1..n -> ReplyEntries] : n \in 0..MaxRecs } \cup
    UNION { [1..n -> MixedEntries] : n \in 0..MaxRecs }

\* a 'recommendations' field that is no list: absent, null, a number, a
\* string, an object
NonLists == { JAbsent, JNull, JInt(3), JStr(<<"n","o">>), JDict(<<"id">>) }

ReplyReasonings == { JAbsent, JStr("Matched on flavor notes") }

\* the 'response' text of the service: not JSON at all, JSON that is no
\* object (an array, a number), or a JSON object
ReplyTexts ==
    { [t |-> "invalid"], [t |-> "array"], [t |-> "number"] } \cup
    { [t |-> "object", recommendations |-> JList(l), reasoning |-> r] :
        l \in ReplyLists, r \in ReplyReasonings } \cup
    { [t |-> "object", recommendations |-> x, reasoning |-> r] :
        x \in NonLists, r \in ReplyReasonings }

\* the call has not returned (or was never issued)
NoOutcome == [kind |-> "none"]

\* what requests.post(...) produces: it raises a RequestException (connection
\* refused, timeout), or it returns a response with a status code and a body
Outcomes ==
    { [kind |-> "exception", details |-> d] : d \in {"Connection refused", "Read timed out"} } \cup
    { [kind |-> "response", status_code |-> c] : c \in {404, 503} } \cup
    { [kind |-> "response", status_code |-> 200, text |-> x] : x \in ReplyTexts }

-----------------------------------------------------------------------------
(* Parsing, validation and join of the reply *)

AI_MODEL == "deepseek-r1:8b (Local)"
NoDrinksReasoning ==
    "No drinks match your preferences and restrictions. Please adjust your filters."
NoStrongReasoning ==
    "No strong matches found (confidence 5+/7). Try adjusting your search or preferences."
DefaultReasoning == "AI-powered recommendations based on your preferences."
FallbackReasoning == "Using fallback recommendations"
FallbackNote == "AI response parsing failed"

DigitChars == <<"0","1","2","3","4","5","6","7","8","9">>

IsDigit(c) == \E i \in 1..Len(DigitChars) : DigitChars[i] = c

DigitVal(c) == (CHOOSE i \in 1..Len(DigitChars) : DigitChars[i] = c) - 1

\* str.strip() of the spaces around a text
Strip(x) ==
    LET inked == { i \in 1..Len(x) : x[i] # " " }
    IN  IF inked = {} THEN <<>>
        ELSE SubSeq(x, CHOOSE i \in inked : \A j \in inked : i <= j,
                       CHOOSE i \in inked : \A j \in inked : i >= j)

\* the number a text of decimal digits denotes
RECURSIVE DecimalValue(_)
DecimalValue(ds) ==
    IF ds = <<>> THEN 0
    ELSE 10 * DecimalValue(SubSeq(ds, 1, Len(ds) - 1)) + DigitVal(ds[Len(ds)])

\* int(x) on a text: <<n>> when it denotes the integer n, <<>> when int raises
\* ValueError.  (Digits, an optional sign and surrounding spaces; the
\* underscore and non-ASCII digit forms int also takes are not in the texts
\* explored.)
IntOf(x) ==
    LET u == Strip(x)
        signed == u # <<>> /\ u[1] \in {"+", "-"}
        ds == IF signed THEN Tail(u) ELSE u
    IN  IF ds # <<>> /\ \A i \in 1..Len(ds) : IsDigit(ds[i])
        THEN <<(IF signed /\ u[1] = "-" THEN 0 - DecimalValue(ds) ELSE DecimalValue(ds))>>
        ELSE <<>>

\* mutant: an entry whose identifier is given as text is always skipped
CoercedIdSkipsText(rec) ==
    IF rec.id.t = "str" THEN <<>> ELSE <<rec.id>>

\* what the loop holds in rec_id when it reaches the confidence test: <<id>>,
\* or <<>> when int(rec_id) raised ValueError and the entry was skipped
CoercedId(rec) ==
    IF rec.id.t = "str"
    THEN (IF IntOf(rec.id.v) = <<>> THEN <<>> ELSE <<JInt(IntOf(rec.id.v)[1])>>)
    ELSE <<rec.id>>

\* the loop over recommendations_data raises TypeError: some entry that is a
\* dict and was not skipped has a confidence that `>=` cannot compare with 5
LoopRaises(recommendations_data) ==
    \E j \in 1..Len(recommendations_data) :
        LET rec == recommendations_data[j]
        IN  /\ rec.t = "object"
            /\ CoercedId(rec) # <<>>
            /\ rec.confidence.t \in {"str", "null"}

\* rec.get('confidence', 0)
ConfidenceOf(rec) == IF rec.confidence.t = "absent" THEN 0 ELSE rec.confidence.v

\* mutant: the threshold is one too low (confidence >= 4)
RECURSIVE HighConfidenceFromFour(_)
HighConfidenceFromFour(recommendations_data) ==
    IF recommendations_data = <<>> THEN <<>>
    ELSE LET rec == Head(recommendations_data)
             rest == HighConfidenceFromFour(Tail(recommendations_data))
         IN  IF rec.t = "object" /\ CoercedId(rec) # <<>>
             THEN LET confidence == ConfidenceOf(rec)
                  IN  IF confidence >= 4 /\ confidence <= 7
                      THEN <<[id |-> CoercedId(rec)[1], confidence |-> confidence]>> \o rest
                      ELSE rest
             ELSE rest

\* mutant: the upper limit of the confidence test is missing
RECURSIVE HighConfidenceNoUpper(_)
HighConfidenceNoUpper(recommendations_data) ==
    IF recommendations_data = <<>> THEN <<>>
    ELSE LET rec == Head(recommendations_data)
             rest == HighConfidenceNoUpper(Tail(recommendations_data))
         IN  IF rec.t = "object" /\ CoercedId(rec) # <<>>
             THEN LET confidence == ConfidenceOf(rec)
                  IN  IF confidence >= 5
                      THEN <<[id |-> CoercedId(rec)[1], confidence |-> confidence]>> \o rest
                      ELSE rest
             ELSE rest

\* the loop that builds high_confidence from recommendations_data
RECURSIVE HighConfidence(_)
HighConfidence(recommendations_data) ==
    IF recommendations_data = <<>> THEN <<>>
    ELSE LET rec == Head(recommendations_data)
             rest == HighConfidence(Tail(recommendations_data))
         IN  IF rec.t = "object" /\ CoercedId(rec) # <<>>
             THEN LET confidence == ConfidenceOf(rec)
                  IN  IF confidence >= 5 /\ confidence <= 7
                      THEN <<[id |-> CoercedId(rec)[1], confidence |-> confidence]>> \o rest
                      ELSE rest
             ELSE rest

\* next((p for p in filtered_products if p['id'] == rec['id']), None), as the
\* sequence holding the first match or nothing
FirstMatch(fp, rec_id) ==
    LET same(p) == rec_id.t = "int" /\ p.id = rec_id.v
        found == SelectSeq(fp, same)
    IN  IF found = <<>> THEN <<>> ELSE <<Head(found)>>

\* product.copy() with product_with_confidence['confidence'] = confidence
WithConfidence(p, confidence) ==
    [id |-> p.id, name |-> p.name, category |-> p.category, notes |-> p.notes,
     allergens |-> p.allergens, vendor |-> p.vendor, confidence |-> confidence]

\* mutant: each product is put in front of the list instead of appended
RECURSIVE RecommendedProductsReversed(_, _)
RecommendedProductsReversed(high_confidence, fp) ==
    IF high_confidence = <<>> THEN <<>>
    ELSE LET rec == Head(high_confidence)
             product == FirstMatch(fp, rec.id)
             rest == RecommendedProductsReversed(Tail(high_confidence), fp)
         IN  IF product # <<>>
             THEN rest \o <<WithConfidence(product[1], rec.confidence)>>
             ELSE rest

\* mutant: the join looks the identifier up in the whole catalog
RECURSIVE RecommendedProductsFromCatalog(_, _)
RecommendedProductsFromCatalog(high_confidence, fp) ==
    IF high_confidence = <<>> THEN <<>>
    ELSE LET rec == Head(high_confidence)
             product == FirstMatch(catalog, rec.id)
             rest == RecommendedProductsFromCatalog(Tail(high_confidence), fp)
         IN  IF product # <<>>
             THEN <<WithConfidence(product[1], rec.confidence)>> \o rest
             ELSE rest

\* x put into the list xs, which is sorted by descending confidence
RECURSIVE InsertByConfidence(_, _)
InsertByConfidence(x, xs) ==
    IF xs = <<>> THEN <<x>>
    ELSE IF x.confidence >= Head(xs).confidence THEN <<x>> \o xs
         ELSE <<Head(xs)>> \o InsertByConfidence(x, Tail(xs))

\* mutant: the joined products are sorted by descending confidence
RECURSIVE RecommendedProductsSorted(_, _)
RecommendedProductsSorted(high_confidence, fp) ==
    IF high_confidence = <<>> THEN <<>>
    ELSE LET rec == Head(high_confidence)
             product == FirstMatch(fp, rec.id)
             rest == RecommendedProductsSorted(Tail(high_confidence), fp)
         IN  IF product # <<>>
             THEN InsertByConfidence(WithConfidence(product[1], rec.confidence), rest)
             ELSE rest

\* the loop that builds recommended_products from high_confidence
RECURSIVE RecommendedProducts(_, _)
RecommendedProducts(high_confidence, fp) ==
    IF high_confidence = <<>> THEN <<>>
    ELSE LET rec == Head(high_confidence)
             product == FirstMatch(fp, rec.id)
             rest == RecommendedProducts(Tail(high_confidence), fp)
         IN  IF product # <<>>
             THEN <<WithConfidence(product[1], rec.confidence)>> \o rest
             ELSE rest

\* mutant: the fallback list is not cut to three
FallbackProductsUncut(fp) == fp

\* filtered_products[:3]
FallbackProducts(fp) == SubSeq(fp, 1, IF Len(fp) < 3 THEN Len(fp) ELSE 3)

\* the response returned when the filters leave no candidate
FilterEmptyResponse(r) ==
    [status |-> 200,
     body |-> [user_id |-> r.user_id, query |-> r.query, recommendations |-> <<>>,
               reasoning |-> NoDrinksReasoning, ai_model |-> AI_MODEL]]

\* the handler ends in an exception that no except clause catches
\* (Flask answers 500 Internal Server Error)
Unhandled(exception) == [status |-> 500, body |-> [exception |-> exception]]

\* what `for rec in recommendations_data` iterates over: the items of a
\* list, the characters of a string, the keys of a dict
IterationOf(x) ==
    IF x.t = "absent" THEN <<>>
    ELSE IF x.t = "list" THEN x.v
    ELSE [i \in 1..Len(x.v) |-> JStr(<<x.v[i]>>)]

\* the body of `try: result = json.loads(ai_text) ...` for a text that parses
\* to an object
ParsedResponse(result, fp, r) ==
    LET recommendations_data == IterationOf(result.recommendations)
        reasoning ==
            IF result.reasoning.t = "absent" THEN DefaultReasoning ELSE result.reasoning.v
        high_confidence == HighConfidence(recommendations_data)
    IN  IF result.recommendations.t \in {"null", "int"} THEN Unhandled("TypeError")
        ELSE IF LoopRaises(recommendations_data) THEN Unhandled("TypeError")
        ELSE IF high_confidence = <<>>
        THEN [status |-> 200,
              body |-> [user_id |-> r.user_id, query |-> r.query, recommendations |-> <<>>,
                        reasoning |-> NoStrongReasoning, ai_model |-> AI_MODEL]]
        ELSE [status |-> 200,
              body |-> [user_id |-> r.user_id, query |-> r.query,
                        recommendations |-> RecommendedProducts(high_confidence, fp),
                        reasoning |-> reasoning, ai_model |-> AI_MODEL]]

\* the response returned on json.JSONDecodeError
FallbackResponse(fp, r) ==
    [status |-> 200,
     body |-> [user_id |-> r.user_id, query |-> r.query,
               recommendations |-> FallbackProducts(fp),
               reasoning |-> FallbackReasoning, note |-> FallbackNote]]

\* mutant: the status code is not checked, a non-200 body goes to json.loads
HandleOutcomeNoStatusCheck(o, fp, r) ==
    IF o.kind = "exception"
    THEN [status |-> 500,
          body |-> [error |-> "Cannot connect to Ollama. Make sure Ollama is running.",
                    details |-> o.details]]
    ELSE IF o.status_code = 200 /\ o.text.t # "invalid"
         THEN ParsedResponse(o.text, fp, r)
         ELSE FallbackResponse(fp, r)

\* everything the handler does once requests.post has returned or raised
HandleOutcome(o, fp, r) ==
    IF o.kind = "exception"
    THEN [status |-> 500,
          body |-> [error |-> "Cannot connect to Ollama. Make sure Ollama is running.",
                    details |-> o.details]]
    ELSE IF o.status_code = 200
         THEN IF o.text.t = "invalid"
              THEN FallbackResponse(fp, r)
              ELSE IF o.text.t = "object"
                   THEN ParsedResponse(o.text, fp, r)
                   ELSE Unhandled("AttributeError")
         ELSE [status |-> 500,
               body |-> [error |-> "Ollama API error", status |-> o.status_code]]

-----------------------------------------------------------------------------
(* Vendor administration: the lifecycle handlers of /api/admin/vendors/<id>, *)
(* each split at its call of send_email                                      *)

\* the vendor identifiers an admin request may name
VendorIds == {1, 2, 3}

\* the vendor_accounts rows at the start: two applications awaiting review
\* (status takes its column default), the second without contact person
StoredVendors ==
    [i \in {1, 2} |->
        [id |-> i,
         business_name |-> IF i = 1 THEN "Starbucks" ELSE "Blue Bottle Coffee",
         contact_person |-> IF i = 1 THEN Text("Ann") ELSE None,
         email |-> IF i = 1 THEN "ann@starbucks.test" ELSE "office@bluebottle.test",
         status |-> "pending",
         reject_reason |-> None, block_reason |-> None, suspend_reason |-> None]]

\* no admin request received yet
NoRequest == [action |-> "none"]

\* the customer_accounts rows at the start
StoredCustomers ==
    [i \in {1} |-> [id |-> i, email |-> "kim@example.test", name |-> "Kim",
                    allergies |-> <<"milk">>]]

\* the password init_db gives the super admin, and other password texts
Admin123 == <<"a","d","m","i","n","1","2","3">>
Secret9 == <<"s","e","c","r","e","t","9">>
Short == <<"a","b","c">>

\* the admin_accounts rows at the start: the super admin of init_db
StoredAdmins == [u \in {"olving82@gmail.com"} |-> Admin123]

\* the id sequences after the stored rows were inserted
SequencesAtStart == [vendor_accounts |-> 2, customer_accounts |-> 1]

\* the browsers that hold a session cookie
Browsers == {"b1", "b2"}

\* a session without login
EmptySession == [admin_id |-> None, vendor_id |-> None, business_name |-> None]

\* the session after admin_login
AdminSession == [EmptySession EXCEPT !.admin_id = Text("olving82@gmail.com")]

\* the session after mock_vendor_login as the vendor row v
VendorSession(v) ==
    [EmptySession EXCEPT !.vendor_id = JInt(v.id), !.business_name = Text(v.business_name)]

\* session.get(key) is truthy
Present(x) == x.t # "none"

\* the sessions a request may come with: that of a browser, or none
SessionsNow == { sessions[b] : b \in Browsers } \cup { EmptySession }

\* require_admin_auth passes
IsAdmin(session) == Present(session.admin_id)

VendorsAtStart ==
    /\ vendors = StoredVendors
    /\ emails = <<>>
    /\ admin_pc = "idle"
    /\ admin_req = NoRequest
    /\ admin_response = None
    /\ admin_calls = 0
    /\ sessions = [b \in Browsers |-> IF b = "b1" THEN AdminSession ELSE EmptySession]
    /\ customers = StoredCustomers
    /\ admins = StoredAdmins
    /\ sequences = SequencesAtStart

\* the 'reason' key of the JSON body: absent, or a text
ReasonChoices == { JAbsent, JStr("Unpaid invoice") }

\* data.get('reason', default)
ReasonOf(body_reason, default) ==
    IF body_reason.t = "absent" THEN default ELSE body_reason.v

\* the response of require_admin_auth without an admin session
Unauthorized == [status |-> 401, body |-> [error |-> "Unauthorized. Admin login required."]]

VendorNotFound == [status |-> 404, body |-> [error |-> "Vendor not found"]]

\* the row v after the handler's assignments
Assigned(v, changes) ==
    [f \in DOMAIN v |-> IF f \in DOMAIN changes THEN changes[f] ELSE v[f]]

\* a lifecycle handler from its entry to db_session.commit(): r holds the
\* request and the handler's locals, changes the columns it assigns
LifecycleCommit(r, changes) ==
    /\ admin_pc = "idle"
    /\ admin_calls < MaxAdminCalls
    /\ admin_calls' = admin_calls + 1
    /\ admin_req' = r
    /\ IF ~r.admin_id
       THEN /\ admin_response' = Unauthorized
            /\ admin_pc' = "idle"
            /\ vendors' = vendors
       ELSE IF r.vendor_id \notin DOMAIN vendors
       THEN /\ admin_response' = VendorNotFound
            /\ admin_pc' = "idle"
            /\ vendors' = vendors
       ELSE /\ admin_response' = None
            /\ admin_pc' = "committed"
            /\ vendors' = [vendors EXCEPT ![r.vendor_id] = Assigned(@, changes)]
    /\ UNCHANGED <<emails, sessions, customers, admins, sequences>>
    /\ UNCHANGED <<pipeline_vars, store_vars>>

ApproveVendor ==
    \E vendor_id \in VendorIds, session \in SessionsNow :
        LifecycleCommit([action |-> "approve", vendor_id |-> vendor_id,
                         admin_id |-> IsAdmin(session), reason |-> None],
                        [status |-> "approved"])

RejectVendor ==
    \E vendor_id \in VendorIds, session \in SessionsNow, body_reason \in ReasonChoices :
        LET reason == Text(ReasonOf(body_reason, "Application did not meet requirements"))
        IN  LifecycleCommit([action |-> "reject", vendor_id |-> vendor_id,
                             admin_id |-> IsAdmin(session), reason |-> reason],
                            [status |-> "rejected", reject_reason |-> reason])

BlockVendor ==
    \E vendor_id \in VendorIds, session \in SessionsNow, body_reason \in ReasonChoices :
        LET reason == Text(ReasonOf(body_reason, "Blocked by administrator"))
        IN  LifecycleCommit([action |-> "block", vendor_id |-> vendor_id,
                             admin_id |-> IsAdmin(session), reason |-> reason],
                            [status |-> "blocked", block_reason |-> reason])

UnblockVendor ==
    \E vendor_id \in VendorIds, session \in SessionsNow :
        LifecycleCommit([action |-> "unblock", vendor_id |-> vendor_id,
                         admin_id |-> IsAdmin(session), reason |-> None],
                        [status |-> "approved", block_reason |-> None])

SuspendVendor ==
    \E vendor_id \in VendorIds, session \in SessionsNow, body_reason \in ReasonChoices :
        LET reason == Text(ReasonOf(body_reason, "Payment required"))
        IN  LifecycleCommit([action |-> "suspend", vendor_id |-> vendor_id,
                             admin_id |-> IsAdmin(session), reason |-> reason],
                            [status |-> "suspended", suspend_reason |-> reason])

UnsuspendVendor ==
    \E vendor_id \in VendorIds, session \in SessionsNow :
        LifecycleCommit([action |-> "unsuspend", vendor_id |-> vendor_id,
                         admin_id |-> IsAdmin(session), reason |-> None],
                        [status |-> "approved", suspend_reason |-> None])

\* the template function each handler calls for its email
TemplateOf(action) ==
    CASE action = "approve"   -> "get_vendor_approval_email"
      [] action = "reject"    -> "get_vendor_rejection_email"
      [] action = "block"     -> "get_vendor_blocked_email"
      [] action = "unblock"   -> "get_vendor_restored_email"
      [] action = "suspend"   -> "get_vendor_suspended_email"
      [] action = "unsuspend" -> "get_vendor_restored_email"

\* the "message" of each handler's response
MessageOf(action) ==
    CASE action = "approve"   -> "Vendor approved and notification email sent"
      [] action = "reject"    -> "Vendor rejected and notification email sent"
      [] action = "block"     -> "Vendor blocked and notification email sent"
      [] action = "unblock"   -> "Vendor unblocked and notification email sent"
      [] action = "suspend"   -> "Vendor suspended and notification email sent"
      [] action = "unsuspend" -> "Vendor unsuspended and notification email sent"

\* the send_email call of the handler in progress: the row's attributes are
\* read after the commit
EmailOf(r) ==
    LET vendor == vendors[r.vendor_id]
    IN  [to |-> vendor.email,
         template |-> TemplateOf(r.action),
         vendor_name |-> vendor.business_name,
         contact_person |-> IF vendor.contact_person.t = "none"
                            THEN "Vendor" ELSE vendor.contact_person.v,
         reason |-> r.reason]

\* the response of a lifecycle handler that reached its end
LifecycleResponse(r, email_result) ==
    [status |-> 200,
     body |-> [message |-> MessageOf(r.action),
               vendor |-> vendors[r.vendor_id],
               email_status |-> email_result]]

\* mutant: the handler answers without calling send_email
SendNotificationSkipped ==
    /\ admin_pc = "committed"
    /\ admin_response' = LifecycleResponse(admin_req, [success |-> TRUE])
    /\ admin_pc' = "idle"
    /\ UNCHANGED <<vendors, emails, admin_req, admin_calls, sessions, customers, admins, sequences>>
    /\ UNCHANGED <<pipeline_vars, store_vars>>

\* a lifecycle handler from db_session.commit() to its return: one call of
\* send_email, whose result (delivered or not) goes into the response
SendNotification ==
    /\ admin_pc = "committed"
    /\ emails' = Append(emails, EmailOf(admin_req))
    /\ \E success \in BOOLEAN :
           admin_response' = LifecycleResponse(admin_req, [success |-> success])
    /\ admin_pc' = "idle"
    /\ UNCHANGED <<vendors, admin_req, admin_calls, sessions, customers, admins, sequences>>
    /\ UNCHANGED <<pipeline_vars, store_vars>>

-----------------------------------------------------------------------------
(* The product handlers of /api/vendor/products, which change the catalog *)

\* the largest identifier of the rows in Pool
ProductSeqAtStart ==
    CHOOSE n \in {Pool[i].id : i \in 1..Len(Pool)} :
        \A i \in 1..Len(Pool) : Pool[i].id <= n

\* the request running beside the first one
PeerRequest ==
    [query |-> "something mild", user_id |-> "guest2", disliked_ids |-> {2},
     allergies |-> <<>>, avoid_list |-> <<>>, preferred_vendors |-> <<>>,
     category |-> None]

\* the second request before it starts
PeerAtStart ==
    [pc |-> "start", req |-> PeerRequest, all_products |-> <<>>,
     filtered_products |-> <<>>, outcome |-> NoOutcome, response |-> None]

StoreAtStart ==
    /\ peer = PeerAtStart
    /\ product_seq = ProductSeqAtStart
    /\ store_response = None
    /\ mutations = 0
    /\ interactions = <<>>
    /\ store_req = NoRequest

\* require_vendor_auth: the error response, or None when the request may go on
RequireVendorAuth(session) ==
    IF ~Present(session.vendor_id)
    THEN [status |-> 401,
          body |-> [error |-> "Unauthorized. Please login with Facebook Business account."]]
    ELSE IF ~Present(session.business_name) THEN None
    ELSE LET rows == { i \in DOMAIN vendors :
                         vendors[i].business_name = session.business_name.v }
         IN  IF rows = {} THEN None
             ELSE LET vendor == vendors[CHOOSE i \in rows : TRUE]
                  IN  IF vendor.status = "blocked"
                      THEN [status |-> 403,
                            body |-> [error |-> "Account Blocked",
                                      reason |-> IF vendor.block_reason.t = "none"
                                                 THEN "Contact administrator"
                                                 ELSE vendor.block_reason.v]]
                      ELSE IF vendor.status = "suspended"
                      THEN [status |-> 403,
                            body |-> [error |-> "Account Suspended",
                                      reason |-> IF vendor.suspend_reason.t = "none"
                                                 THEN "Payment required"
                                                 ELSE vendor.suspend_reason.v]]
                      ELSE None

ProductNotFound == [status |-> 404, body |-> [error |-> "Product not found or unauthorized"]]

\* the product identifiers a vendor request may name
ProductIds == {1, 4, ProductSeqAtStart + 1}

\* the JSON body of a create request
NewProducts ==
    { [name |-> <<"D","e","c","a","f">>, category |-> <<"H","o","t">>,
       notes |-> None, allergens |-> {}] }

\* the JSON body of an update request: the keys it holds
UpdateChoices == { [name |-> <<"R","i","s","t">>] }

\* the positions of the rows with identifier product_id, whoever owns them
OwnedAtAnyVendor(product_id, vendor_business_name) ==
    { k \in 1..Len(catalog) : catalog[k].id = product_id }

\* the positions of the rows with identifier product_id owned by the vendor
OwnedAt(product_id, vendor_business_name) ==
    { k \in 1..Len(catalog) :
        catalog[k].id = product_id /\ catalog[k].vendor = vendor_business_name }

\* the sequence xs without its k-th element
Without(xs, k) == SubSeq(xs, 1, k - 1) \o SubSeq(xs, k + 1, Len(xs))

CreateProduct ==
    /\ mutations < MaxMutations
    /\ mutations' = mutations + 1
    /\ \E session \in SessionsNow, data \in NewProducts :
           LET auth_error == RequireVendorAuth(session)
               product == [id |-> product_seq + 1, name |-> data.name,
                           category |-> data.category, notes |-> data.notes,
                           allergens |-> data.allergens, vendor |-> session.business_name.v]
           IN  /\ store_req' = [action |-> "create_product", session |-> session]
               /\ IF auth_error # None
                  THEN /\ store_response' = auth_error
                       /\ UNCHANGED <<catalog, product_seq>>
                  ELSE /\ catalog' = Append(catalog, product)
                       /\ product_seq' = product_seq + 1
                       /\ store_response' = [status |-> 201, body |-> product]
    /\ UNCHANGED <<req, pc, all_products, filtered_products, calls, prompt, outcome, response>>
    /\ UNCHANGED <<vendor_vars, peer, interactions>>

\* The updated row keeps its place in the table or moves to its end: the
\* handler's query has no ORDER BY.
UpdateProduct ==
    /\ mutations < MaxMutations
    /\ mutations' = mutations + 1
    /\ \E session \in SessionsNow, product_id \in ProductIds, data \in UpdateChoices :
           LET auth_error == RequireVendorAuth(session)
           IN  /\ store_req' = [action |-> "update_product", session |-> session,
                                product_id |-> product_id]
               /\ IF auth_error # None
                  THEN /\ store_response' = auth_error
                       /\ catalog' = catalog
                  ELSE IF OwnedAt(product_id, session.business_name.v) = {}
                  THEN /\ store_response' = ProductNotFound
                       /\ catalog' = catalog
                  ELSE LET k == CHOOSE k \in OwnedAt(product_id, session.business_name.v) : TRUE
                           product == Assigned(catalog[k], data)
                       IN  /\ \/ catalog' = [catalog EXCEPT ![k] = product]
                              \/ catalog' = Append(Without(catalog, k), product)
                           /\ store_response' = [status |-> 200, body |-> product]
    /\ UNCHANGED <<req, pc, all_products, filtered_products, calls, prompt, outcome, response>>
    /\ UNCHANGED <<vendor_vars, peer, product_seq, interactions>>

\* The interactions of the deleted product go with it (the relationship's
\* cascade).
DeleteProduct ==
    /\ mutations < MaxMutations
    /\ mutations' = mutations + 1
    /\ \E session \in SessionsNow, product_id \in ProductIds :
           LET auth_error == RequireVendorAuth(session)
               Kept(i) == i.product_id # product_id
           IN  /\ store_req' = [action |-> "delete_product", session |-> session,
                                product_id |-> product_id]
               /\ IF auth_error # None
                  THEN /\ store_response' = auth_error
                       /\ UNCHANGED <<catalog, interactions>>
                  ELSE IF OwnedAt(product_id, session.business_name.v) = {}
                  THEN /\ store_response' = ProductNotFound
                       /\ UNCHANGED <<catalog, interactions>>
                  ELSE LET k == CHOOSE k \in OwnedAt(product_id, session.business_name.v) : TRUE
                       IN  /\ catalog' = Without(catalog, k)
                           /\ interactions' = SelectSeq(interactions, Kept)
                           /\ store_response' =
                                  [status |-> 200,
                                   body |-> [message |-> "Product deleted successfully"]]
    /\ UNCHANGED <<req, pc, all_products, filtered_products, calls, prompt, outcome, response>>
    /\ UNCHANGED <<vendor_vars, peer, product_seq>>

-----------------------------------------------------------------------------
(* Account administration: admin login, the customer and vendor tables, the *)
(* vendor's mock login and its read-only endpoints, product interactions    *)

\* Flask's answer to an exception no handler catches
InternalServerError == [status |-> 500, body |-> [error |-> "Internal Server Error"]]

\* the table t without the row of identifier i
WithoutRow(t, i) == [j \in DOMAIN t \ {i} |-> t[j]]

\* the table t with the row v added
WithRow(t, v) == [j \in DOMAIN t \cup {v.id} |-> IF j = v.id THEN v ELSE t[j]]

\* a unique column of table t holds value x in a row other than row i
Taken(t, column, x, i) == \E j \in DOMAIN t \ {i} : t[j][column] = x

\* the credentials a login request may carry
Usernames == {"olving82@gmail.com", "eve@example.test"}
Passwords == {Admin123, Secret9}

\* admin_login: the session of browser b gets admin_id when the credentials
\* match a row (admin_role and admin_name, which no handler reads back for
\* authorization, are left out of the session)
AdminLogin ==
    /\ admin_pc = "idle"
    /\ admin_calls < MaxAdminCalls
    /\ admin_calls' = admin_calls + 1
    /\ \E b \in Browsers, username \in Usernames, password \in Passwords :
           LET found == username \in DOMAIN admins /\ admins[username] = password
           IN  /\ admin_req' = [action |-> "admin_login", admin_id |-> IsAdmin(sessions[b]),
                               browser |-> b]
               /\ IF found
                  THEN /\ sessions' = [sessions EXCEPT ![b].admin_id = Text(username)]
                       /\ admin_response' =
                              [status |-> 200,
                               body |-> [success |-> TRUE, message |-> "Login successful"]]
                  ELSE /\ sessions' = sessions
                       /\ admin_response' =
                              [status |-> 401,
                               body |-> [error |-> "Invalid username or password"]]
    /\ UNCHANGED <<vendors, emails, admin_pc, customers, admins, sequences>>
    /\ UNCHANGED <<pipeline_vars, store_vars>>

\* admin_logout
AdminLogout ==
    /\ admin_pc = "idle"
    /\ admin_calls < MaxAdminCalls
    /\ admin_calls' = admin_calls + 1
    /\ \E b \in Browsers :
           /\ admin_req' = [action |-> "admin_logout", admin_id |-> IsAdmin(sessions[b]),
                           browser |-> b]
           /\ sessions' = [sessions EXCEPT ![b].admin_id = None]
    /\ admin_response' =
           [status |-> 200, body |-> [success |-> TRUE, message |-> "Logged out successfully"]]
    /\ UNCHANGED <<vendors, emails, admin_pc, customers, admins, sequences>>
    /\ UNCHANGED <<pipeline_vars, store_vars>>

\* what every handler of /api/admin below does besides its own table: it
\* takes the request r, sends no email and leaves the session alone
AdminRequest(r) ==
    /\ admin_pc = "idle"
    /\ admin_calls < MaxAdminCalls
    /\ admin_calls' = admin_calls + 1
    /\ admin_req' = r
    /\ UNCHANGED <<emails, admin_pc, sessions>>
    /\ UNCHANGED <<pipeline_vars, store_vars>>

ChangeAdminPassword ==
    \E session \in SessionsNow,
       current_password \in {<<>>, Admin123, Secret9},
       new_password \in {Secret9, Short},
       confirm_password \in {Secret9, Short} :
        /\ AdminRequest([action |-> "change_admin_password", admin_id |-> IsAdmin(session)])
        /\ IF ~IsAdmin(session)
           THEN /\ admin_response' = Unauthorized
                /\ admins' = admins
           ELSE IF current_password = <<>> \/ new_password = <<>> \/ confirm_password = <<>>
           THEN /\ admin_response' = [status |-> 400, body |-> [error |-> "All fields are required"]]
                /\ admins' = admins
           ELSE IF new_password # confirm_password
           THEN /\ admin_response' = [status |-> 400, body |-> [error |-> "New passwords do not match"]]
                /\ admins' = admins
           ELSE IF Len(new_password) < 6
           THEN /\ admin_response' =
                       [status |-> 400, body |-> [error |-> "Password must be at least 6 characters"]]
                /\ admins' = admins
           ELSE IF session.admin_id.v \notin DOMAIN admins
           THEN /\ admin_response' = [status |-> 404, body |-> [error |-> "Admin account not found"]]
                /\ admins' = admins
           ELSE IF admins[session.admin_id.v] # current_password
           THEN /\ admin_response' =
                       [status |-> 401, body |-> [error |-> "Current password is incorrect"]]
                /\ admins' = admins
           ELSE /\ admin_response' =
                       [status |-> 200,
                        body |-> [success |-> TRUE, message |-> "Password changed successfully"]]
                /\ admins' = [admins EXCEPT ![session.admin_id.v] = new_password]
        /\ UNCHANGED <<vendors, customers, sequences>>

\* the rows of table t in the order of their identifiers
RECURSIVE Rows(_)
Rows(t) ==
    IF DOMAIN t = {} THEN <<>>
    ELSE LET i == CHOOSE i \in DOMAIN t : \A j \in DOMAIN t : i <= j
         IN  <<t[i]>> \o Rows(WithoutRow(t, i))

GetCustomers ==
    \E session \in SessionsNow :
        /\ AdminRequest([action |-> "get_customers", admin_id |-> IsAdmin(session)])
        /\ admin_response' = IF ~IsAdmin(session) THEN Unauthorized
                             ELSE [status |-> 200, body |-> Rows(customers)]
        /\ UNCHANGED <<vendors, customers, admins, sequences>>

CustomerIds == {1, 2}

CustomerNotFound == [status |-> 404, body |-> [error |-> "Customer not found"]]

\* the JSON body of a create_customer request
NewCustomers ==
    { [email |-> "lee@example.test", name |-> "Lee", allergies |-> <<>>],
      [email |-> "kim@example.test", name |-> "Kim Two", allergies |-> <<>>] }

\* The id sequence advances even when the insert fails on the unique email.
CreateCustomer ==
    \E session \in SessionsNow, data \in NewCustomers :
        LET customer == [id |-> sequences.customer_accounts + 1, email |-> data.email,
                         name |-> data.name, allergies |-> data.allergies]
        IN  /\ AdminRequest([action |-> "create_customer", admin_id |-> IsAdmin(session)])
            /\ IF ~IsAdmin(session)
               THEN /\ admin_response' = Unauthorized
                    /\ UNCHANGED <<customers, sequences>>
               ELSE /\ sequences' = [sequences EXCEPT !.customer_accounts = @ + 1]
                    /\ IF Taken(customers, "email", data.email, 0)
                       THEN /\ admin_response' = InternalServerError
                            /\ customers' = customers
                       ELSE /\ admin_response' = [status |-> 201, body |-> customer]
                            /\ customers' = WithRow(customers, customer)
            /\ UNCHANGED <<vendors, admins>>

\* the JSON body of an update_customer request: the keys it holds
CustomerChanges == { [name |-> "Kimberly"], [allergies |-> <<"soy">>] }

UpdateCustomer ==
    \E session \in SessionsNow, customer_id \in CustomerIds, data \in CustomerChanges :
        /\ AdminRequest([action |-> "update_customer", admin_id |-> IsAdmin(session),
                         customer_id |-> customer_id])
        /\ IF ~IsAdmin(session)
           THEN /\ admin_response' = Unauthorized
                /\ customers' = customers
           ELSE IF customer_id \notin DOMAIN customers
           THEN /\ admin_response' = CustomerNotFound
                /\ customers' = customers
           ELSE /\ customers' = [customers EXCEPT ![customer_id] = Assigned(@, data)]
                /\ admin_response' = [status |-> 200, body |-> customers'[customer_id]]
        /\ UNCHANGED <<vendors, admins, sequences>>

DeleteCustomer ==
    \E session \in SessionsNow, customer_id \in CustomerIds :
        /\ AdminRequest([action |-> "delete_customer", admin_id |-> IsAdmin(session),
                         customer_id |-> customer_id])
        /\ IF ~IsAdmin(session)
           THEN /\ admin_response' = Unauthorized
                /\ customers' = customers
           ELSE IF customer_id \notin DOMAIN customers
           THEN /\ admin_response' = CustomerNotFound
                /\ customers' = customers
           ELSE /\ customers' = WithoutRow(customers, customer_id)
                /\ admin_response' =
                       [status |-> 200, body |-> [message |-> "Customer deleted successfully"]]
        /\ UNCHANGED <<vendors, admins, sequences>>

GetVendors ==
    \E session \in SessionsNow :
        /\ AdminRequest([action |-> "get_vendors", admin_id |-> IsAdmin(session)])
        /\ admin_response' = IF ~IsAdmin(session) THEN Unauthorized
                             ELSE [status |-> 200, body |-> Rows(vendors)]
        /\ UNCHANGED <<vendors, customers, admins, sequences>>

\* the JSON body of a create_vendor request; 'status' is absent or a text
NewVendors ==
    { [business_name |-> "Peets", email |-> "hello@peets.test", status |-> s] :
          s \in {JAbsent, JStr("approved"), JStr("archived")} }
    \cup { [business_name |-> "Starbucks", email |-> "second@starbucks.test", status |-> JAbsent] }

\* The id sequence advances even when the insert fails on a unique column.
CreateVendor ==
    \E session \in SessionsNow, data \in NewVendors :
        LET vendor == [id |-> sequences.vendor_accounts + 1,
                       business_name |-> data.business_name,
                       contact_person |-> None,
                       email |-> data.email,
                       status |-> IF data.status.t = "absent" THEN "pending" ELSE data.status.v,
                       reject_reason |-> None, block_reason |-> None, suspend_reason |-> None]
        IN  /\ AdminRequest([action |-> "create_vendor", admin_id |-> IsAdmin(session)])
            /\ IF ~IsAdmin(session)
               THEN /\ admin_response' = Unauthorized
                    /\ UNCHANGED <<vendors, sequences>>
               ELSE /\ sequences' = [sequences EXCEPT !.vendor_accounts = @ + 1]
                    /\ IF \/ Taken(vendors, "business_name", data.business_name, 0)
                          \/ Taken(vendors, "email", data.email, 0)
                       THEN /\ admin_response' = InternalServerError
                            /\ vendors' = vendors
                       ELSE /\ admin_response' = [status |-> 201, body |-> vendor]
                            /\ vendors' = WithRow(vendors, vendor)
            /\ UNCHANGED <<customers, admins>>

\* the JSON body of an update_vendor request: the keys it holds
VendorChanges ==
    { [business_name |-> "Starbucks Reserve"],
      [business_name |-> "Blue Bottle Coffee"],
      [status |-> "approved"],
      [status |-> "archived"] }

UpdateVendor ==
    \E session \in SessionsNow, vendor_id \in VendorIds, data \in VendorChanges :
        /\ AdminRequest([action |-> "update_vendor", admin_id |-> IsAdmin(session),
                         vendor_id |-> vendor_id])
        /\ IF ~IsAdmin(session)
           THEN /\ admin_response' = Unauthorized
                /\ vendors' = vendors
           ELSE IF vendor_id \notin DOMAIN vendors
           THEN /\ admin_response' = VendorNotFound
                /\ vendors' = vendors
           ELSE LET vendor == Assigned(vendors[vendor_id], data)
                IN  IF Taken(vendors, "business_name", vendor.business_name, vendor_id)
                    THEN /\ admin_response' = InternalServerError
                         /\ vendors' = vendors
                    ELSE /\ admin_response' = [status |-> 200, body |-> vendor]
                         /\ vendors' = [vendors EXCEPT ![vendor_id] = vendor]
        /\ UNCHANGED <<customers, admins, sequences>>

\* delete_vendor without its call of require_admin_auth
DeleteVendorNoAuth ==
    \E session \in SessionsNow, vendor_id \in VendorIds :
        /\ AdminRequest([action |-> "delete_vendor", admin_id |-> IsAdmin(session),
                         vendor_id |-> vendor_id])
        /\ IF vendor_id \notin DOMAIN vendors
           THEN /\ admin_response' = VendorNotFound
                /\ vendors' = vendors
           ELSE /\ vendors' = WithoutRow(vendors, vendor_id)
                /\ admin_response' =
                       [status |-> 200, body |-> [message |-> "Vendor deleted successfully"]]
        /\ UNCHANGED <<customers, admins, sequences>>

DeleteVendor ==
    \E session \in SessionsNow, vendor_id \in VendorIds :
        /\ AdminRequest([action |-> "delete_vendor", admin_id |-> IsAdmin(session),
                         vendor_id |-> vendor_id])
        /\ IF ~IsAdmin(session)
           THEN /\ admin_response' = Unauthorized
                /\ vendors' = vendors
           ELSE IF vendor_id \notin DOMAIN vendors
           THEN /\ admin_response' = VendorNotFound
                /\ vendors' = vendors
           ELSE /\ vendors' = WithoutRow(vendors, vendor_id)
                /\ admin_response' =
                       [status |-> 200, body |-> [message |-> "Vendor deleted successfully"]]
        /\ UNCHANGED <<customers, admins, sequences>>

\* the business names a mock login may carry ('Starbucks' when the key is absent)
LoginNames == {"Starbucks", "Peets"}

\* f'{business_name.lower().replace(" ", "")}@test.com' for the names in use
MockEmail(business_name) ==
    CASE business_name = "Starbucks" -> "starbucks@test.com"
      [] business_name = "Peets" -> "peets@test.com"
      [] business_name = "Blue Bottle Coffee" -> "bluebottlecoffee@test.com"
      [] business_name = "Starbucks Reserve" -> "starbucksreserve@test.com"

\* mock_vendor_login: no authentication; the vendor row is created with
\* status 'approved' when no row has the business name
MockVendorLogin ==
    /\ mutations < MaxMutations
    /\ mutations' = mutations + 1
    /\ \E b \in Browsers, business_name \in LoginNames :
           LET rows == { i \in DOMAIN vendors : vendors[i].business_name = business_name }
               created == [id |-> sequences.vendor_accounts + 1,
                           business_name |-> business_name,
                           contact_person |-> Text("Test User"),
                           email |-> MockEmail(business_name),
                           status |-> "approved",
                           reject_reason |-> None, block_reason |-> None,
                           suspend_reason |-> None]
               vendor == IF rows = {} THEN created ELSE vendors[CHOOSE i \in rows : TRUE]
           IN  /\ store_req' = [action |-> "mock_vendor_login", session |-> sessions[b]]
               /\ IF rows = {} /\ Taken(vendors, "email", created.email, 0)
                  THEN /\ sequences' = [sequences EXCEPT !.vendor_accounts = @ + 1]
                       /\ store_response' = InternalServerError
                       /\ UNCHANGED <<vendors, sessions>>
                  ELSE /\ vendors' = IF rows = {} THEN WithRow(vendors, created) ELSE vendors
                       /\ sequences' = IF rows = {}
                                       THEN [sequences EXCEPT !.vendor_accounts = @ + 1]
                                       ELSE sequences
                       /\ sessions' = [sessions EXCEPT ![b].vendor_id = JInt(vendor.id),
                                                       ![b].business_name =
                                                           Text(vendor.business_name)]
                       /\ store_response' =
                              [status |-> 200, body |-> [success |-> TRUE, vendor |-> vendor]]
    /\ UNCHANGED <<emails, admin_pc, admin_req, admin_response, admin_calls, customers, admins>>
    /\ UNCHANGED <<pipeline_vars, peer, product_seq, interactions>>

\* the products of the vendor, in table order
OwnProducts(vendor_business_name) ==
    LET Own(p) == p.vendor = vendor_business_name IN SelectSeq(catalog, Own)

GetVendorProducts ==
    /\ mutations < MaxMutations
    /\ mutations' = mutations + 1
    /\ \E session \in SessionsNow :
           LET auth_error == RequireVendorAuth(session)
           IN  /\ store_req' = [action |-> "get_vendor_products", session |-> session]
               /\ store_response' =
                      IF auth_error # None THEN auth_error
                      ELSE [status |-> 200, body |-> OwnProducts(session.business_name.v)]
    /\ UNCHANGED <<pipeline_vars, vendor_vars, peer, product_seq, interactions>>

\* the number of interactions of the type with the product
CountOf(product_id, interaction_type) ==
    Cardinality({ k \in 1..Len(interactions) :
                    /\ interactions[k].product_id = product_id
                    /\ interactions[k].interaction_type = interaction_type })

\* the statistics row of a product
StatsOf(product) ==
    [id |-> product.id, name |-> product.name, category |-> product.category,
     likes |-> CountOf(product.id, "like"), dislikes |-> CountOf(product.id, "dislike")]

\* list.sort(key=likes, reverse=True): stable, most liked first
RECURSIVE SortedByLikes(_)
SortedByLikes(stats) ==
    IF stats = <<>> THEN <<>>
    ELSE LET k == CHOOSE k \in 1..Len(stats) :
                      /\ \A j \in 1..Len(stats) : stats[j].likes <= stats[k].likes
                      /\ \A j \in 1..(k - 1) : stats[j].likes < stats[k].likes
         IN  <<stats[k]>> \o SortedByLikes(Without(stats, k))

GetProductStats ==
    /\ mutations < MaxMutations
    /\ mutations' = mutations + 1
    /\ \E session \in SessionsNow :
           LET auth_error == RequireVendorAuth(session)
               products == OwnProducts(session.business_name.v)
               stats == [k \in 1..Len(products) |-> StatsOf(products[k])]
           IN  /\ store_req' = [action |-> "get_product_stats", session |-> session]
               /\ store_response' =
                      IF auth_error # None THEN auth_error
                      ELSE [status |-> 200, body |-> SortedByLikes(stats)]
    /\ UNCHANGED <<pipeline_vars, vendor_vars, peer, product_seq, interactions>>

\* the JSON body of a product-interaction request: an object with its keys
\* absent or given, or a value that is no object
InteractionBodies ==
    { [t |-> "object", product_id |-> i, type |-> y, customer_email |-> e] :
          i \in {JAbsent, JInt(0), JInt(1), JInt(9)},
          y \in {JAbsent, JStr(""), JStr("like"), JStr("dislike"), JStr("love")},
          e \in {JAbsent, JStr("kim@example.test")} }
    \cup { [t |-> "array"] }

\* data.get(key): None when the key is absent
Get(x) == IF x.t = "absent" THEN None ELSE x

\* Python's truth value of None, a JSON number or a JSON text
Filled(x) ==
    CASE x.t = "none" -> FALSE
      [] x.t = "int" -> x.v # 0
      [] x.t = "str" -> x.v # ""

\* track_product_interaction: the commit fails when the product does not
\* exist (foreign key) or when the database cannot be reached
TrackProductInteraction ==
    /\ mutations < MaxMutations
    /\ mutations' = mutations + 1
    /\ \E data \in InteractionBodies, db_up \in BOOLEAN :
           /\ store_req' = [action |-> "track_product_interaction", data |-> data]
           /\ IF data.t # "object"
              THEN /\ store_response' =
                          [status |-> 500,
                           body |-> [error |-> "'list' object has no attribute 'get'"]]
                   /\ interactions' = interactions
              ELSE LET product_id == Get(data.product_id)
                       interaction_type == Get(data.type)
                       customer_email == Get(data.customer_email)
                   IN  IF ~Filled(product_id) \/ ~Filled(interaction_type)
                       THEN /\ store_response' =
                                   [status |-> 400, body |-> [error |-> "Missing required fields"]]
                            /\ interactions' = interactions
                       ELSE IF ~db_up \/ \A k \in 1..Len(catalog) : catalog[k].id # product_id.v
                       THEN /\ store_response' =
                                   [status |-> 500, body |-> [error |-> "commit failed"]]
                            /\ interactions' = interactions
                       ELSE /\ store_response' =
                                   [status |-> 200,
                                    body |-> [success |-> TRUE,
                                              message |-> "Interaction recorded"]]
                            /\ interactions' =
                                   Append(interactions,
                                          [product_id |-> product_id.v,
                                           interaction_type |-> interaction_type.v,
                                           customer_email |-> customer_email])
    /\ UNCHANGED <<pipeline_vars, vendor_vars, peer, product_seq>>

-----------------------------------------------------------------------------
(* The handler as a state machine: one request, split at its blocking call *)

Init ==
    /\ catalog \in Catalogs
    /\ req \in Requests
    /\ pc = "start"
    /\ all_products = <<>>
    /\ filtered_products = <<>>
    /\ calls = 0
    /\ prompt = None
    /\ outcome = NoOutcome
    /\ response = None
    /\ VendorsAtStart
    /\ StoreAtStart

\* mutant: the early return on an empty candidate list is missing
AiRecommendBeginNoShortCircuit ==
    /\ pc = "start"
    /\ all_products' = catalog
    /\ filtered_products' = FilterProducts(catalog, req)
    /\ prompt' = Prompt(FilterProducts(catalog, req), req)
    /\ pc' = "waiting"
    /\ calls' = calls + 1
    /\ UNCHANGED <<catalog, req, outcome, response>>
    /\ UNCHANGED <<vendor_vars, store_vars>>

\* ai_recommend from its entry to the return of the empty result or to the
\* issue of requests.post
AiRecommendBegin ==
    /\ pc = "start"
    /\ all_products' = catalog
    /\ LET fp == FilterProducts(catalog, req)
       IN  /\ filtered_products' = fp
           /\ IF fp = <<>>
              THEN /\ response' = FilterEmptyResponse(req)
                   /\ pc' = "done"
                   /\ calls' = calls
                   /\ prompt' = prompt
              ELSE /\ response' = response
                   /\ pc' = "waiting"
                   /\ calls' = calls + 1
                   /\ prompt' = Prompt(fp, req)
    /\ UNCHANGED <<catalog, req, outcome>>
    /\ UNCHANGED <<vendor_vars, store_vars>>

\* mutant: a failed call is issued again (up to three calls)
AiRecommendFinishRetry ==
    /\ pc = "waiting"
    /\ \E o \in Outcomes :
           /\ outcome' = o
           /\ IF (o.kind = "exception" \/ o.status_code # 200) /\ calls < 3
              THEN /\ calls' = calls + 1
                   /\ pc' = "waiting"
                   /\ response' = response
              ELSE /\ calls' = calls
                   /\ pc' = "done"
                   /\ response' = HandleOutcome(o, filtered_products, req)
    /\ UNCHANGED <<catalog, req, all_products, filtered_products, prompt>>
    /\ UNCHANGED <<vendor_vars, store_vars>>

\* mutant: the join reads the products table again instead of the list the
\* handler built at its start
FinishFromCatalog(os) ==
    /\ pc = "waiting"
    /\ \E o \in os :
           /\ outcome' = o
           /\ response' = HandleOutcome(o, FilterProducts(catalog, req), req)
    /\ pc' = "done"
    /\ UNCHANGED <<catalog, req, all_products, filtered_products, calls, prompt>>
    /\ UNCHANGED <<vendor_vars, store_vars>>

\* ai_recommend from the return of requests.post to its own return, the
\* call producing one of the outcomes os
FinishFrom(os) ==
    /\ pc = "waiting"
    /\ \E o \in os :
           /\ outcome' = o
           /\ response' = HandleOutcome(o, filtered_products, req)
    /\ pc' = "done"
    /\ UNCHANGED <<catalog, req, all_products, filtered_products, calls, prompt>>
    /\ UNCHANGED <<vendor_vars, store_vars>>

AiRecommendFinish == FinishFrom(Outcomes)

Next == AiRecommendBegin \/ AiRecommendFinish

Spec == Init /\ [][Next]_vars

\* no recommendation request in progress
PipelineAtRest ==
    /\ catalog = <<>>
    /\ req = [query |-> "something strong", user_id |-> "guest", disliked_ids |-> {},
              allergies |-> <<>>, avoid_list |-> <<>>, preferred_vendors |-> <<>>,
              category |-> None]
    /\ pc = "start"
    /\ all_products = <<>>
    /\ filtered_products = <<>>
    /\ calls = 0
    /\ prompt = None
    /\ outcome = NoOutcome
    /\ response = None

InitVendor == PipelineAtRest /\ VendorsAtStart /\ StoreAtStart

NextVendor ==
    \/ ApproveVendor
    \/ RejectVendor
    \/ BlockVendor
    \/ UnblockVendor
    \/ SuspendVendor
    \/ UnsuspendVendor
    \/ SendNotification

\* the vendor administration alone: admin requests handled one at a time
SpecVendor == InitVendor /\ [][NextVendor]_vars

\* the outcomes explored beside catalog changes: a timeout, a reply that is
\* not JSON, and a reply ranking product 1 and the next product created
FewOutcomes ==
    { [kind |-> "exception", details |-> "Read timed out"],
      [kind |-> "response", status_code |-> 200, text |-> [t |-> "invalid"]],
      [kind |-> "response", status_code |-> 200,
       text |-> [t |-> "object",
                 recommendations |->
                     JList(<< [t |-> "object", id |-> JInt(1), confidence |-> JInt(7)],
                              [t |-> "object", id |-> JInt(ProductSeqAtStart + 1),
                               confidence |-> JInt(6)] >>),
                 reasoning |-> JStr("Matched on flavor notes")]] }

AiRecommendFinishFew == FinishFrom(FewOutcomes)

\* the second request, from its entry to the empty result or to requests.post
PeerBegin ==
    /\ peer.pc = "start"
    /\ LET fp == FilterProducts(catalog, peer.req)
       IN  peer' = [peer EXCEPT !.all_products = catalog,
                                !.filtered_products = fp,
                                !.pc = IF fp = <<>> THEN "done" ELSE "waiting",
                                !.response = IF fp = <<>> THEN FilterEmptyResponse(peer.req) ELSE @]
    /\ UNCHANGED <<pipeline_vars, vendor_vars, product_seq, store_response, mutations, interactions, store_req>>

\* the second request, from the return of requests.post to its own return
PeerFinish ==
    /\ peer.pc = "waiting"
    /\ \E o \in FewOutcomes :
           peer' = [peer EXCEPT !.outcome = o,
                                !.response = HandleOutcome(o, peer.filtered_products, peer.req),
                                !.pc = "done"]
    /\ UNCHANGED <<pipeline_vars, vendor_vars, product_seq, store_response, mutations, interactions, store_req>>

\* a catalog of three products of two vendors, one approved and one
\* suspended, and two requests about to start
InitConcurrent ==
    /\ catalog = SubSeq(Pool, 1, 3)
    /\ req \in { r \in Requests : r.category = None /\ r.allergies = <<>> /\ r.avoid_list = <<>> }
    /\ pc = "start"
    /\ all_products = <<>>
    /\ filtered_products = <<>>
    /\ calls = 0
    /\ prompt = None
    /\ outcome = NoOutcome
    /\ response = None
    /\ vendors = [StoredVendors EXCEPT ![1].status = "approved",
                                       ![2].status = "suspended",
                                       ![2].suspend_reason = Text("Payment required")]
    /\ emails = <<>>
    /\ admin_pc = "idle"
    /\ admin_req = NoRequest
    /\ admin_response = None
    /\ admin_calls = 0
    /\ sessions = [b \in Browsers |-> VendorSession(StoredVendors[IF b = "b1" THEN 1 ELSE 2])]
    /\ customers = StoredCustomers
    /\ admins = StoredAdmins
    /\ sequences = SequencesAtStart
    /\ StoreAtStart

NextConcurrent ==
    \/ AiRecommendBegin
    \/ AiRecommendFinishFew
    \/ PeerBegin
    \/ PeerFinish
    \/ CreateProduct
    \/ UpdateProduct
    \/ DeleteProduct

\* two recommendation requests beside the product handlers
SpecConcurrent == InitConcurrent /\ [][NextConcurrent]_vars

NextAdmin ==
    \/ AdminLogin
    \/ AdminLogout
    \/ ChangeAdminPassword
    \/ GetCustomers
    \/ CreateCustomer
    \/ UpdateCustomer
    \/ DeleteCustomer
    \/ GetVendors
    \/ CreateVendor
    \/ UpdateVendor
    \/ DeleteVendor
    \/ ApproveVendor
    \/ RejectVendor
    \/ BlockVendor
    \/ UnblockVendor
    \/ SuspendVendor
    \/ UnsuspendVendor
    \/ SendNotification

\* every endpoint of /api/admin, from a browser with the admin logged in and
\* from one without
SpecAdmin == InitVendor /\ [][NextAdmin]_vars

\* a catalog of three products of the two stored vendors, the first approved
\* and logged in at one browser, the admin logged in at the other
InitAccounts ==
    /\ catalog = SubSeq(Pool, 1, 3)
    /\ req = [query |-> "something strong", user_id |-> "guest", disliked_ids |-> {},
              allergies |-> <<>>, avoid_list |-> <<>>, preferred_vendors |-> <<>>,
              category |-> None]
    /\ pc = "start"
    /\ all_products = <<>>
    /\ filtered_products = <<>>
    /\ calls = 0
    /\ prompt = None
    /\ outcome = NoOutcome
    /\ response = None
    /\ vendors = [StoredVendors EXCEPT ![1].status = "approved"]
    /\ emails = <<>>
    /\ admin_pc = "idle"
    /\ admin_req = NoRequest
    /\ admin_response = None
    /\ admin_calls = 0
    /\ sessions = [b \in Browsers |-> IF b = "b1" THEN AdminSession
                                      ELSE VendorSession(StoredVendors[1])]
    /\ customers = StoredCustomers
    /\ admins = StoredAdmins
    /\ sequences = SequencesAtStart
    /\ StoreAtStart

NextAccounts ==
    \/ BlockVendor
    \/ SuspendVendor
    \/ UpdateVendor
    \/ SendNotification
    \/ MockVendorLogin
    \/ GetVendorProducts
    \/ CreateProduct
    \/ UpdateProduct
    \/ DeleteProduct
    \/ GetProductStats

\* the vendor's endpoints beside the admin handlers that act on its account
SpecAccounts == InitAccounts /\ [][NextAccounts]_vars

\* a catalog of three products, their vendors logged in, no interaction stored
InitInteractions == InitConcurrent

NextInteractions ==
    \/ TrackProductInteraction
    \/ GetProductStats
    \/ DeleteProduct

\* the interaction endpoint beside the handlers that read and cascade it
SpecInteractions == InitInteractions /\ [][NextInteractions]_vars

-----------------------------------------------------------------------------
(* Properties *)

\* the handler has returned a non-error response
Returned == pc = "done" /\ response.status = 200

\* the recommendations list of the returned response (empty when there is none)
Recs == IF Returned THEN response.body.recommendations ELSE <<>>

\* the returned response is the fallback of the JSONDecodeError branch
IsFallback == Returned /\ "note" \in DOMAIN response.body

\* the service answered 200 with a text that parses as a JSON object
Parsed ==
    /\ pc = "done"
    /\ outcome.kind = "response"
    /\ outcome.status_code = 200
    /\ outcome.text.t = "object"

\* the service answered 200 with a text that is not JSON
Unparseable ==
    /\ pc = "done"
    /\ outcome.kind = "response"
    /\ outcome.status_code = 200
    /\ outcome.text.t = "invalid"

\* the candidate list of the parsed reply (empty when the field is no list)
ReplyList ==
    IF Parsed /\ outcome.text.recommendations.t = "list"
    THEN outcome.text.recommendations.v ELSE <<>>

\* the reply entry is a record
IsRec(e) == e.t = "object"

\* the integer the entry's identifier denotes: <<n>>, or <<>> when it is a
\* text that denotes none
EntryId(e) == IF e.id.t = "int" THEN <<e.id.v>> ELSE IntOf(e.id.v)

\* the reply is well-formed: an object whose candidate list is a list (or
\* absent) of records with a numeric (or no) confidence
WellFormed ==
    /\ Parsed
    /\ outcome.text.recommendations.t \in {"list", "absent"}
    /\ \A j \in 1..Len(ReplyList) :
           IsRec(ReplyList[j]) /\ ReplyList[j].confidence.t \in {"int", "absent"}

\* the identifiers of a list of products
IdsOf(ps) == { ps[i].id : i \in 1..Len(ps) }

\* the reply lists identifier n with a confidence in [5,7]
ReplyRanks(n) ==
    \E j \in 1..Len(ReplyList) :
        /\ IsRec(ReplyList[j])
        /\ EntryId(ReplyList[j]) = <<n>>
        /\ ReplyList[j].confidence.t = "int"
        /\ ReplyList[j].confidence.v \in {5, 6, 7}

\* C1: no returned recommendation, ranked or fallback, has an identifier of the
\* request's disliked-set, whatever the generation service replied.
C1_NoDislikedReturned ==
    Returned /\ req.disliked_ids # {} =>
        \A i \in 1..Len(Recs) : Recs[i].id \notin req.disliked_ids

\* C1 witness: a reply ranks a disliked product of the catalog next to another
\* one, and something is returned.
C1_Witness ==
    /\ Parsed
    /\ \E n \in req.disliked_ids : n \in IdsOf(catalog) /\ ReplyRanks(n)
    /\ Recs # <<>>

\* name + " " + notes (empty for NULL notes), lowercased
NameNotes(p) ==
    Lower(p.name \o Space \o (IF p.notes.t = "none" THEN <<>> ELSE p.notes.v))

\* C2: no returned recommendation, ranked or fallback, has a lowercased
\* name+notes text containing a declared allergy term, lowercased.
C2_NoAllergenTextReturned ==
    Returned /\ req.allergies # <<>> =>
        \A i \in 1..Len(Recs) : \A j \in 1..Len(req.allergies) :
            ~Contains(NameNotes(Recs[i]), Lower(req.allergies[j]))

\* C2 witness: the catalog holds a product whose text names the allergy in
\* another case than the request, the reply ranks it, and something is returned.
C2_Witness ==
    /\ Parsed
    /\ \E k \in 1..Len(catalog) : \E j \in 1..Len(req.allergies) :
           /\ Contains(NameNotes(catalog[k]), Lower(req.allergies[j]))
           /\ ~Contains(catalog[k].name \o Space \o Fmt(catalog[k].notes), req.allergies[j])
           /\ ReplyRanks(catalog[k].id)
    /\ Recs # <<>>

\* C3: a product whose allergen tag set contains a declared allergy is not
\* among the post-filter candidates and not in the returned recommendations.
C3_TaggedAllergenExcluded ==
    pc # "start" =>
        \A j \in 1..Len(req.allergies) :
            /\ \A i \in 1..Len(filtered_products) :
                   req.allergies[j] \notin filtered_products[i].allergens
            /\ \A i \in 1..Len(Recs) : req.allergies[j] \notin Recs[i].allergens

\* C4: when the filters leave no candidate the result has zero recommendations
\* and the fixed "No drinks match" rationale, and no generation call is issued.
C4_EmptyFilterShortCircuits ==
    FilterProducts(catalog, req) = <<>> =>
        /\ calls = 0
        /\ pc # "waiting"
        /\ pc = "done" =>
               /\ response.status = 200
               /\ response.body.recommendations = <<>>
               /\ response.body.reasoning = NoDrinksReasoning

\* C4 witness: a non-empty catalog filtered down to nothing, request answered.
C4_Witness ==
    /\ pc = "done"
    /\ catalog # <<>>
    /\ filtered_products = <<>>
    /\ response.body.reasoning = NoDrinksReasoning

\* C5: an unparseable 200 reply gives a non-error result holding exactly the
\* first three post-filter candidates (all of them when fewer), in filter
\* order, with the fallback rationale and the parsing-failed note.
C5_FallbackFirstThree ==
    Unparseable =>
        /\ response.status = 200
        /\ Len(response.body.recommendations) =
               (IF Len(filtered_products) < 3 THEN Len(filtered_products) ELSE 3)
        /\ \A i \in 1..Len(response.body.recommendations) :
               response.body.recommendations[i] = filtered_products[i]
        /\ response.body.reasoning = FallbackReasoning
        /\ response.body.note = FallbackNote

\* C5 witness: an unparseable reply with more than three candidates.
C5_Witness ==
    /\ Unparseable
    /\ Len(filtered_products) > 3
    /\ Len(response.body.recommendations) = 3

\* the confidence of a reply entry lies in [5,7]
InRange(e) ==
    IsRec(e) /\ e.confidence.t = "int" /\ e.confidence.v >= 5 /\ e.confidence.v <= 7

\* C6: a well-formed reply whose candidate list is empty, or none of whose
\* entries has a confidence in [5,7], gives zero recommendations and the fixed
\* "No strong matches found" rationale, which is not the filter-empty one.
C6_NoStrongMatches ==
    WellFormed /\ (\A j \in 1..Len(ReplyList) : ~InRange(ReplyList[j])) =>
        /\ response.status = 200
        /\ response.body.recommendations = <<>>
        /\ response.body.reasoning = NoStrongReasoning
        /\ response.body.reasoning # NoDrinksReasoning

\* C6 witness: a reply that lists entries, all of them outside [5,7].
C6_Witness ==
    /\ WellFormed
    /\ Len(ReplyList) = MaxRecs
    /\ \A j \in 1..Len(ReplyList) : ~InRange(ReplyList[j])
    /\ \E j \in 1..Len(ReplyList) : ConfidenceOf(ReplyList[j]) = 4
    /\ \E j \in 1..Len(ReplyList) :
           EntryId(ReplyList[j]) # <<>> /\ EntryId(ReplyList[j])[1] \in IdsOf(filtered_products)
    /\ response.body.reasoning = NoStrongReasoning

\* C7: in a successful non-fallback result every recommendation carries a
\* confidence in [5,7], which is the confidence the reply gave that identifier.
C7_ConfidenceInRange ==
    Returned /\ ~IsFallback =>
        \A i \in 1..Len(Recs) :
            /\ "confidence" \in DOMAIN Recs[i]
            /\ Recs[i].confidence >= 5
            /\ Recs[i].confidence <= 7
            /\ \E j \in 1..Len(ReplyList) :
                   /\ InRange(ReplyList[j])
                   /\ EntryId(ReplyList[j]) = <<Recs[i].id>>
                   /\ ReplyList[j].confidence.v = Recs[i].confidence

\* C7 witness: a reply with an entry above 7 for a candidate next to an entry
\* in range, and a ranked result.
C7_Witness ==
    /\ Parsed
    /\ \E j \in 1..Len(ReplyList) :
           /\ IsRec(ReplyList[j])
           /\ ReplyList[j].confidence.t = "int"
           /\ ReplyList[j].confidence.v = 8
           /\ EntryId(ReplyList[j]) # <<>>
           /\ EntryId(ReplyList[j])[1] \in IdsOf(filtered_products)
    /\ Recs # <<>>

\* C8 (as claimed): the recommendations of every result that carries
\* confidences are sorted by descending confidence.
C8_AlwaysSorted ==
    Returned /\ ~IsFallback =>
        \A i \in 1..(Len(Recs) - 1) : Recs[i].confidence >= Recs[i + 1].confidence

\* the reply lists its entries by non-increasing confidence (none counts as 0)
ReplyCompliant ==
    /\ WellFormed
    /\ \A j \in 1..(Len(ReplyList) - 1) :
           ConfidenceOf(ReplyList[j]) >= ConfidenceOf(ReplyList[j + 1])

\* C8 (amended): when the reply lists its entries by non-increasing
\* confidence, the recommendations of the non-fallback result are sorted by
\* descending confidence.
C8_SortedIfReplyCompliant ==
    Returned /\ ~IsFallback /\ ReplyCompliant =>
        \A i \in 1..(Len(Recs) - 1) : Recs[i].confidence >= Recs[i + 1].confidence

\* C8 witness: a compliant reply whose two entries of different confidence are
\* both returned.
C8_Witness ==
    /\ Parsed
    /\ ReplyCompliant
    /\ Len(Recs) = 2
    /\ Recs[1].confidence > Recs[2].confidence

\* the reply entry passes validation and names a post-filter candidate
Survives(e) ==
    InRange(e) /\ EntryId(e) # <<>> /\ EntryId(e)[1] \in IdsOf(filtered_products)

\* C9: every returned product is a post-filter candidate; an entry of a
\* well-formed reply naming another identifier is dropped without an error,
\* and the entries that name candidates with a confidence in [5,7] are still
\* returned.
C9_OnlyCandidatesReturned ==
    /\ \A i \in 1..Len(Recs) : Recs[i].id \in IdsOf(filtered_products)
    /\ WellFormed =>
          /\ response.status = 200
          /\ \A j \in 1..Len(ReplyList) :
                 Survives(ReplyList[j]) =>
                     \E i \in 1..Len(Recs) :
                         /\ Recs[i].id = EntryId(ReplyList[j])[1]
                         /\ Recs[i].confidence = ReplyList[j].confidence.v

\* C9 witness: the reply ranks a catalog product removed by a filter before
\* a candidate, and exactly the candidate is returned.
C9_Witness ==
    /\ Parsed
    /\ Len(ReplyList) = 2
    /\ InRange(ReplyList[1])
    /\ EntryId(ReplyList[1]) # <<>>
    /\ EntryId(ReplyList[1])[1] \in IdsOf(catalog) \ IdsOf(filtered_products)
    /\ Survives(ReplyList[2])
    /\ Len(Recs) = 1

\* the post-filter candidate with identifier n
CandidateOf(n) == CHOOSE p \in {filtered_products[k] : k \in 1..Len(filtered_products)} : p.id = n

\* C10: the recommendations of a well-formed reply are the reply's entries that
\* pass validation and the join, in the reply's order, each the candidate's
\* record with the entry's confidence; nothing is re-sorted.
C10_ReplyOrderPreserved ==
    WellFormed =>
        LET kept == SelectSeq(ReplyList, Survives)
        IN  /\ Len(Recs) = Len(kept)
            /\ \A i \in 1..Len(kept) :
                   Recs[i] = WithConfidence(CandidateOf(EntryId(kept[i])[1]), kept[i].confidence.v)

\* C10 witness: a reply listing a confidence-5 entry before a confidence-7
\* entry, both returned in that order.
C10_Witness ==
    /\ Parsed
    /\ Len(Recs) = 2
    /\ Recs[1].confidence = 5
    /\ Recs[2].confidence = 7
    /\ Recs[1].id # Recs[2].id

\* C11: a non-success status gives a 500 response carrying that status, a
\* connection failure or timeout gives a 500 response carrying the hint and
\* the cause, and neither response holds recommendations.
C11_FailuresClassified ==
    pc = "done" /\ outcome.kind # "none" =>
        /\ outcome.kind \in {"exception", "response"}
        /\ outcome.kind = "exception" =>
               /\ response.status = 500
               /\ DOMAIN response.body = {"error", "details"}
               /\ response.body.error = "Cannot connect to Ollama. Make sure Ollama is running."
               /\ response.body.details = outcome.details
        /\ outcome.kind = "response" /\ outcome.status_code # 200 =>
               /\ response.status = 500
               /\ DOMAIN response.body = {"error", "status"}
               /\ response.body.status = outcome.status_code

\* C11 witness: a timeout, answered with the 500 connectivity response.
C11_Witness ==
    /\ pc = "done"
    /\ outcome.kind = "exception"
    /\ outcome.details = "Read timed out"
    /\ response.status = 500
    /\ Len(filtered_products) > 1

\* C12: one request issues at most one generation call, and has issued
\* exactly one when it ends after a failed or unparseable reply.
C12_AtMostOneCall ==
    /\ calls <= 1
    /\ pc = "done" /\ outcome.kind # "none" => calls = 1
    /\ pc = "waiting" => calls = 1 /\ outcome.kind = "none"

\* C12 witness: a request that ended on a service error after its one call.
C12_Witness ==
    /\ pc = "done"
    /\ outcome.kind = "response"
    /\ outcome.status_code = 503
    /\ calls = 1

\* the response is one of the documented ones: a ranked, no-candidate or
\* no-strong-matches result, the fallback result, the service-error response
\* or the connectivity-error response
Documented ==
    \/ response.status = 200 /\ "recommendations" \in DOMAIN response.body
    \/ response.status = 500 /\ DOMAIN response.body = {"error", "status"}
    \/ response.status = 500 /\ DOMAIN response.body = {"error", "details"}

\* C13: for every outcome of the generation call and every reply text, the
\* request ends with one of the documented responses and never with an
\* exception that no handler catches.
C13_NeverUnhandled == pc = "done" => Documented

\* C14: after a successful parse, a candidate list field that is absent or no
\* list counts as an empty list and gives the no-strong-matches result; a
\* ranked result of a reply without rationale carries the default rationale.
C14_NonListAsEmpty ==
    /\ Parsed /\ outcome.text.recommendations.t # "list" =>
           /\ response.status = 200
           /\ response.body.recommendations = <<>>
           /\ response.body.reasoning = NoStrongReasoning
    /\ Parsed /\ outcome.text.reasoning.t = "absent" /\ Recs # <<>> =>
           response.body.reasoning = DefaultReasoning

\* the entries of l that the loop does not skip for their shape or their
\* identifier, each with its identifier as the integer it denotes
Normalised(l) ==
    LET keep(e) == IsRec(e) /\ EntryId(e) # <<>>
        k == SelectSeq(l, keep)
    IN  [i \in 1..Len(k) |-> [k[i] EXCEPT !.id = JInt(EntryId(k[i])[1])]]

\* C15: an entry that is no record and an entry whose text identifier denotes
\* no integer are skipped, a text identifier that denotes an integer joins as
\* that integer, and the response is the one the reply gives without the
\* skipped entries and with integer identifiers.
C15_EntriesHandled ==
    Parsed /\ outcome.text.recommendations.t = "list" =>
        /\ response =
               ParsedResponse([outcome.text EXCEPT !.recommendations = JList(Normalised(ReplyList))],
                              filtered_products, req)
        /\ response.status = 200 =>
               \A j \in 1..Len(ReplyList) :
                   Survives(ReplyList[j]) =>
                       \E i \in 1..Len(Recs) :
                           /\ Recs[i].id = EntryId(ReplyList[j])[1]
                           /\ Recs[i].confidence = ReplyList[j].confidence.v

\* C15 witness: a skipped entry followed by an entry with a text identifier,
\* whose product is returned.
C15_Witness ==
    /\ Parsed
    /\ Len(ReplyList) = 2
    /\ (~IsRec(ReplyList[1]) \/ EntryId(ReplyList[1]) = <<>>)
    /\ IsRec(ReplyList[2])
    /\ ReplyList[2].id.t = "str"
    /\ Len(Recs) = 1
    /\ Recs[1].id = EntryId(ReplyList[2])[1]

\* filter stage k of the request r applied to the list ps: 1 category,
\* 2 dislike, 3 allergen, 4 avoid
Stage(k, ps, r) ==
    CASE k = 1 -> CategoryFilter(ps, r.category)
      [] k = 2 -> DislikeFilter(ps, r.disliked_ids)
      [] k = 3 -> AllergenFilter(ps, r.allergies)
      [] k = 4 -> AvoidFilter(ps, r.avoid_list)

\* the stages listed in o applied to ps one after the other
RECURSIVE RunStages(_, _, _)
RunStages(o, ps, r) ==
    IF o = <<>> THEN ps ELSE RunStages(Tail(o), Stage(Head(o), ps, r), r)

\* every order of the four stages, and every order with one stage applied
\* a second time
StageOrders ==
    { o \in [1..4 -> 1..4] \cup [1..5 -> 1..4] : {o[i] : i \in DOMAIN o} = 1..4 }

\* C16: applying the four filter stages in any order, or any stage twice,
\* gives the candidate list the handler has computed in its fixed order
\* when it tests the list for emptiness; each stage applied again to its own
\* output changes nothing.
C16_StagesCommute ==
    pc # "start" /\ outcome = NoOutcome =>
        /\ \A o \in StageOrders : RunStages(o, catalog, req) = filtered_products
        /\ \A k \in 1..4 :
               Stage(k, Stage(k, catalog, req), req) = Stage(k, catalog, req)

\* C16 witness: a request every stage of which removes a product of the
\* catalog, with a candidate left.
C16_Witness ==
    /\ pc = "waiting"
    /\ \A k \in 1..4 : Stage(k, catalog, req) # catalog
    /\ \E k \in 1..4 : Stage(k, catalog, req) # Stage(1, catalog, req)
    /\ filtered_products # <<>>

\* the product satisfies the four conditions of the request r, its text
\* being its name and notes (a product without notes has none)
Eligible(p, r) ==
    /\ Truthy(r.category) => p.category = r.category.v
    /\ p.id \notin r.disliked_ids
    /\ \A j \in 1..Len(r.allergies) : ~Contains(NameNotes(p), Lower(r.allergies[j]))
    /\ \A j \in 1..Len(r.avoid_list) :
           ~Contains(NameNotes(p) \o Space \o Lower(p.category), Lower(r.avoid_list[j]))

\* C17: the post-filter candidate list is exactly the catalog products, in
\* catalog order, that match the category restriction, are not disliked, and
\* whose name+notes holds no allergy term and name+notes+category no
\* avoid-term, case-insensitively.
C17_ExactCandidates ==
    pc # "start" =>
        LET keep(p) == Eligible(p, req)
        IN  filtered_products = SelectSeq(catalog, keep)

\* C19: every non-error response holds user_id, query, recommendations,
\* reasoning and the fixed ai_model tag, user_id and query being the
\* request's, and every recommendation carries a confidence.
C19_ResponseFields ==
    Returned =>
        /\ {"user_id", "query", "recommendations", "reasoning", "ai_model"}
               \subseteq DOMAIN response.body
        /\ response.body.user_id = req.user_id
        /\ response.body.query = req.query
        /\ response.body.ai_model = AI_MODEL
        /\ \A i \in 1..Len(Recs) : "confidence" \in DOMAIN Recs[i]

\* the status each lifecycle action sets
TargetStatus(action) ==
    CASE action \in {"approve", "unblock", "unsuspend"} -> "approved"
      [] action = "reject"  -> "rejected"
      [] action = "block"   -> "blocked"
      [] action = "suspend" -> "suspended"

\* what one step of the administration does to the vendors and the emails
LifecycleStep ==
    /\ admin_calls' = admin_calls + 1 /\ admin_req'.admin_id =>
           IF admin_req'.vendor_id \in DOMAIN vendors
           THEN /\ admin_pc' = "committed"
                /\ DOMAIN vendors' = DOMAIN vendors
                /\ vendors'[admin_req'.vendor_id].status = TargetStatus(admin_req'.action)
                /\ \A w \in DOMAIN vendors \ {admin_req'.vendor_id} : vendors'[w] = vendors[w]
                /\ emails' = emails
           ELSE /\ admin_pc' = "idle"
                /\ admin_response'.status = 404
                /\ vendors' = vendors
                /\ emails' = emails
    /\ admin_pc = "committed" /\ admin_pc' = "idle" =>
           /\ vendors' = vendors
           /\ vendors[admin_req.vendor_id].status = TargetStatus(admin_req.action)
           /\ Len(emails') = Len(emails) + 1
           /\ SubSeq(emails', 1, Len(emails)) = emails
           /\ emails'[Len(emails')].to = vendors[admin_req.vendor_id].email
           /\ admin_response'.status = 200
    /\ emails' # emails => admin_pc = "committed" /\ admin_pc' = "idle"

ProductOf(rec) == [f \in DOMAIN rec \ {"confidence"} |-> rec[f]]

\* every recommendation of the response is a row of the list snap
FromSnapshot(resp, snap) ==
    resp.status = 200 =>
        \A i \in 1..Len(resp.body.recommendations) :
            \E k \in 1..Len(snap) : ProductOf(resp.body.recommendations[i]) = snap[k]

\* what one step does to the stored rows, and where the state it reaches
\* takes the lists and the response of each request from
SnapshotStep ==
    /\ pc' # pc \/ peer' # peer =>
           /\ catalog' = catalog
           /\ vendors' = vendors
           /\ product_seq' = product_seq
    /\ pc = "start" /\ pc' # "start" => all_products' = catalog
    /\ pc # "start" => all_products' = all_products
    /\ pc' # "start" => filtered_products' = FilterProducts(all_products', req')
    /\ pc' = "done" /\ outcome' # NoOutcome =>
           /\ response' = HandleOutcome(outcome', FilterProducts(all_products', req'), req')
           /\ FromSnapshot(response', all_products')
    /\ peer.pc = "start" /\ peer'.pc # "start" => peer'.all_products = catalog
    /\ peer.pc # "start" => peer'.all_products = peer.all_products
    /\ peer'.pc # "start" =>
           peer'.filtered_products = FilterProducts(peer'.all_products, peer'.req)
    /\ peer'.pc = "done" /\ peer'.outcome # NoOutcome =>
           /\ peer'.response =
                  HandleOutcome(peer'.outcome,
                                FilterProducts(peer'.all_products, peer'.req), peer'.req)
           /\ FromSnapshot(peer'.response, peer'.all_products)

\* C18: in every interleaving of two recommendation requests with product
\* creations, updates and deletions, a request changes no stored row, and
\* its candidate list and response are those of the rows it read at its
\* start, whatever the table holds when it ends.
C18_SnapshotIsolation == [][SnapshotStep]_vars

\* C18 witness: the first request returns product 1 as it read it, after
\* the row was renamed or deleted and while the table holds a product created
\* since, which the reply ranked and the response does not hold.
C18_Witness ==
    /\ pc = "done"
    /\ outcome.kind = "response"
    /\ outcome.text.t = "object"
    /\ Len(Recs) = 1
    /\ Recs[1].id = 1
    /\ ProductOf(Recs[1]) = Pool[2]
    /\ \A k \in 1..Len(catalog) : catalog[k] # Pool[2]
    /\ \E k \in 1..Len(catalog) : catalog[k].id = ProductSeqAtStart + 1
    /\ peer.pc = "done"
    /\ peer.all_products # all_products

C29_NoDuplicateIds ==
    Returned =>
        \A i, j \in 1..Len(Recs) : i # j => Recs[i].id # Recs[j].id

\* the lines of a text: its parts between line breaks
RECURSIVE Lines(_)
Lines(x) ==
    IF \A i \in 1..Len(x) : x[i] # "\n" THEN <<x>>
    ELSE LET k == CHOOSE k \in 1..Len(x) : x[k] = "\n" /\ \A j \in 1..(k - 1) : x[j] # "\n"
         IN  <<SubSeq(x, 1, k - 1)>> \o Lines(SubSeq(x, k + 1, Len(x)))

\* the decimal text of a product identifier of Pool
IdText(n) == CASE n = 1 -> <<"1">> [] n = 2 -> <<"2">> [] n = 3 -> <<"3">>
               [] n = 4 -> <<"4">> [] n = 5 -> <<"5">>

\* "{id}. {name} ({category}) - {notes}", the notes as Python renders them
\* (the word None for a product without notes)
LineOf(p) ==
    IdText(p.id) \o <<".", " ">> \o p.name \o <<" ", "(">> \o p.category \o <<")", " ", "-", " ">>
        \o (IF p.notes.t = "none" THEN <<"N","o","n","e">> ELSE p.notes.v)

VendorStatuses == {"pending", "approved", "rejected", "blocked", "suspended"}

\* C22: after any sequence of admin and vendor operations the status of every
\* stored vendor account is one of pending, approved, rejected, blocked,
\* suspended.
C22_StatusInDomain ==
    \A i \in DOMAIN vendors : vendors[i].status \in VendorStatuses

\* the endpoints behind require_vendor_auth
VendorEndpoints ==
    {"get_vendor_products", "create_product", "update_product", "delete_product",
     "get_product_stats"}

\* the step is a request to a vendor endpoint
VendorRequestStep == mutations' = mutations + 1 /\ store_req'.action \in VendorEndpoints

\* a vendor request from the session of a vendor that is blocked or
\* suspended is answered 403 and changes no product
RefusedStep ==
    LET session == store_req'.session
    IN  (/\ VendorRequestStep
         /\ Present(session.vendor_id)
         /\ session.vendor_id.v \in DOMAIN vendors
         /\ vendors[session.vendor_id.v].status \in {"blocked", "suspended"})
        => store_response'.status = 403 /\ catalog' = catalog

\* C23: while a vendor's status is blocked or suspended, every vendor
\* endpoint request from that vendor's logged-in session returns 403 and
\* changes no product, whatever admin operations (update_vendor renaming the
\* business included) came before.
C23_BlockedVendorRefused == [][RefusedStep]_vars

\* the endpoints behind require_admin_auth
AdminEndpoints ==
    {"change_admin_password",
     "get_customers", "create_customer", "update_customer", "delete_customer",
     "get_vendors", "create_vendor", "update_vendor", "delete_vendor",
     "approve", "reject", "block", "unblock", "suspend", "unsuspend"}

\* a request to an admin endpoint from a session without admin login is
\* answered 401, changes no account and sends no email; admin_logout leaves
\* the browser's session without admin login
AdminOnlyStep ==
    /\ (/\ admin_calls' = admin_calls + 1
        /\ admin_req'.action \in AdminEndpoints
        /\ ~admin_req'.admin_id)
       => /\ admin_response' = Unauthorized
          /\ admin_pc' = "idle"
          /\ UNCHANGED <<vendors, customers, admins, sequences, emails>>
    /\ (admin_calls' = admin_calls + 1 /\ admin_req'.action = "admin_logout")
       => ~IsAdmin(sessions'[admin_req'.browser])

\* C24: every admin management endpoint invoked from a session without an
\* admin login, or from a session after admin_logout, returns 401, changes no
\* stored account and sends no email.
C24_AdminOnly == [][AdminOnlyStep]_vars

\* C24 witness: the admin has logged out and the next request, to an
\* endpoint that would delete an existing vendor, was answered 401.
C24_Witness ==
    /\ \A b \in Browsers : ~IsAdmin(sessions[b])
    /\ admin_req.action = "delete_vendor"
    /\ admin_req.vendor_id \in DOMAIN vendors
    /\ ~admin_req.admin_id
    /\ admin_response = Unauthorized
    /\ vendors = StoredVendors
    /\ emails = <<>>

\* the rows of the products table as a set
RowsOf(products) == { products[k] : k \in 1..Len(products) }

\* the (id, vendor) pairs of the products table
OwnersOf(products) == { <<products[k].id, products[k].vendor>> : k \in 1..Len(products) }

\* a product handler touches only the rows of the session's business: an
\* update or delete naming another vendor's product is answered 404 and
\* changes nothing, a created row carries the session's business name, and
\* an update leaves every row's vendor as it was
OwnershipStep ==
    LET session == store_req'.session
        product_id == store_req'.product_id
        own(p) == Present(session.business_name) /\ p.vendor = session.business_name.v
    IN  (mutations' = mutations + 1 /\ store_req'.action \in VendorEndpoints) =>
            /\ \A p \in RowsOf(catalog) : ~own(p) => p \in RowsOf(catalog')
            /\ (/\ store_req'.action \in {"update_product", "delete_product"}
                /\ RequireVendorAuth(session) = None
                /\ \E p \in RowsOf(catalog) : p.id = product_id /\ ~own(p))
               => store_response' = ProductNotFound /\ catalog' = catalog
            /\ (store_req'.action = "create_product" /\ store_response'.status = 201)
               => /\ Len(catalog') = Len(catalog) + 1
                  /\ SubSeq(catalog', 1, Len(catalog)) = catalog
                  /\ catalog'[Len(catalog')].vendor = session.business_name.v
            /\ store_req'.action = "create_product" => RowsOf(catalog) \subseteq RowsOf(catalog')
            /\ store_req'.action = "update_product" =>
                   /\ Len(catalog') = Len(catalog)
                   /\ OwnersOf(catalog') = OwnersOf(catalog)

\* C25: a vendor session updates or deletes only products whose vendor is the
\* session's business name (another vendor's product: 404, unchanged);
\* create_product sets the new product's vendor to the session's business
\* name, and update_product never changes a product's vendor.
C25_OwnProductsOnly == [][OwnershipStep]_vars

\* C25 witness: the Starbucks session asked to update the Blue Bottle product
\* 4 after creating a product of its own; the answer was 404 and product 4
\* is as it was.
C25_Witness ==
    /\ store_req.action = "update_product"
    /\ store_req.product_id = 4
    /\ store_req.session.business_name = Text("Starbucks")
    /\ store_response = ProductNotFound
    /\ Pool[3] \in RowsOf(catalog)
    /\ \E p \in RowsOf(catalog) : p.id = ProductSeqAtStart + 1 /\ p.vendor = "Starbucks"

\* the step is unblock_vendor called on vendor i
UnblockOf(i) ==
    /\ admin_calls' = admin_calls + 1
    /\ admin_req'.action = "unblock"
    /\ admin_req'.vendor_id = i

\* a blocked vendor stays blocked in every step but unblock_vendor on it
BlockedStaysStep ==
    \A i \in DOMAIN vendors :
        (vendors[i].status = "blocked" /\ ~UnblockOf(i))
            => i \in DOMAIN vendors' /\ vendors'[i].status = "blocked"

\* C26: once block_vendor has set a vendor's status to blocked, the status
\* stays blocked under every sequence of other operations until
\* unblock_vendor is invoked on that vendor; suspend followed by unsuspend,
\* or unsuspend alone, does not make a blocked vendor approved.
C26_BlockedUntilUnblock == [][BlockedStaysStep]_vars

\* the admin operations that may leave a vendor approved
ApprovingActions == {"create_vendor", "update_vendor", "approve", "unblock", "unsuspend"}

\* a vendor row that is approved after the step and was not before it (or
\* did not exist) comes from an approving operation with an admin session
ApprovedByAdminStep ==
    \A i \in DOMAIN vendors' :
        (/\ vendors'[i].status = "approved"
         /\ (i \in DOMAIN vendors => vendors[i].status # "approved"))
        => /\ admin_calls' = admin_calls + 1
           /\ admin_req'.action \in ApprovingActions
           /\ admin_req'.admin_id

\* C27: a vendor account has status approved only as the result of an
\* operation performed with an admin session (create_vendor, update_vendor,
\* approve, unblock, unsuspend); no request without admin login creates an
\* approved vendor or changes a status to approved.
C27_ApprovedByAdminOnly == [][ApprovedByAdminStep]_vars

\* the step is a request to track_product_interaction
TrackStep == mutations' = mutations + 1 /\ store_req'.action = "track_product_interaction"

\* the request's JSON object lacks product_id or type
MissingField(data) ==
    data.t = "object" /\ (data.product_id.t = "absent" \/ data.type.t = "absent")

\* the answers of track_product_interaction: one row stored with 200,
\* nothing stored with 400 (a required field missing) or 500 (the store
\* raised)
TrackOutcomeStep ==
    TrackStep =>
        /\ store_response'.status \in {200, 400, 500}
        /\ store_response'.status = 200 =>
               /\ Len(interactions') = Len(interactions) + 1
               /\ SubSeq(interactions', 1, Len(interactions)) = interactions
               /\ interactions'[Len(interactions')].product_id = store_req'.data.product_id.v
               /\ interactions'[Len(interactions')].interaction_type = store_req'.data.type.v
        /\ store_response'.status # 200 => interactions' = interactions
        /\ MissingField(store_req'.data) => store_response'.status = 400

\* every stored interaction is a like or a dislike
LikeOrDislike ==
    \A k \in 1..Len(interactions) : interactions[k].interaction_type \in {"like", "dislike"}

\* C30: track_product_interaction stores exactly one interaction when
\* product_id and type are present and the store accepts it, answers 400 and
\* stores nothing when one of them is missing, rolls back, answers 500 and
\* stores nothing when the store raises; every stored interaction has type
\* 'like' or 'dislike'.
C30_InteractionStored == [][TrackOutcomeStep /\ LikeOrDislike']_vars

=============================================================================
